---- MODULE Spec2Model ----
(***************************************************************************)
(* Library service: book inventory, borrowings, payments bound to remote   *)
(* checkout sessions, the session-expiration sweep and the Stripe webhook. *)
(*                                                                         *)
(* Storage is a transactional relational store at READ COMMITTED: a        *)
(* request reads committed rows into in-memory model instances, and what   *)
(* it writes inside transaction.atomic becomes visible at commit.  A       *)
(* Model.save() writes every column of the in-memory instance, so a write  *)
(* from a stale instance overwrites whatever was committed meanwhile.      *)
(***************************************************************************)
EXTENDS Integers, Naturals, Sequences, FiniteSets, TLC

\* ---------------------------------------------------------------- bounds
NumBooks == 1
NumUsers == 2
NumWorkers == 2
InitInventory == 1
MaxBorrowings == 2
MaxSessions == 3
MaxDays == 2
MaxLoanDays == 1
MaxDailyFee == 3
MaxFineMultiplier == 25

\* ------------------------------------------------------ program constants
SessionHours == 24
ExtendHours == 1
HttpOk == 200
HttpCreated == 201
HttpServerError == 500
HttpBadRequest == 400
HttpAccepted == 202
HttpMethodNotAllowed == 405
HttpNoContent == 204
HttpForbidden == 403
max_retries == 3
max_days == 30
YearDays == 365
DefaultFineMultiplier == 20

Books == 1..NumBooks
PaymentTypes == {"payment", "fine"}
Users == 1..NumUsers
Procs == 1..NumWorkers
NULL == 0

VARIABLES
    inventory,    \* Book.inventory, committed value per book
    borrowings,   \* committed Borrowing rows, index = id
    payments,     \* committed Payment rows, index = id
    stripe,       \* provider side: state of each checkout session, index = session id
    now,          \* clock, in hours
    req,          \* request workers: position and in-memory instances
    sweep,        \* check_expired_stripe_sessions: position and fetched rows
    task,         \* expire_payment_session: position and in-memory instance
    response,     \* the response (or task result) of the request completed last
    notify,       \* check_overdue_borrowings: position, counters, queued retries
    catalog,      \* Book rows: whether the row exists, and its daily_fee in cents
    FINE_MULTIPLIER  \* settings.FINE_MULTIPLIER, in tenths

vars == <<inventory, borrowings, payments, stripe, now, req, sweep, task, response,
          notify, catalog, FINE_MULTIPLIER>>

\* ------------------------------------------------------------- Book model
is_available(inv) == inv > 0

Book_borrow(inv) ==
    IF inv > 0 THEN [ok |-> TRUE, inventory |-> inv - 1]
               ELSE [ok |-> FALSE, inventory |-> inv]

Book_return_book_neg(inv) == inv - 1

Book_return_book(inv) == inv + 1

\* ------------------------------------------------------- derived queries
SessionIds == 1..MaxSessions
BorrowingIds == 1..Len(borrowings)
PaymentIds == 1..Len(payments)

\* settings.KYIV_TIME.date() as a day number (dates start at 1, NULL is 0)
Today == (now \div 24) + 1

is_returned(b) == b.actual_return_date # NULL

was_returned_late(b) == is_returned(b) /\ b.actual_return_date > b.expected_return_date

\* Borrowing.borrowing_days
borrowing_days(b) == b.expected_return_date - b.borrow_date

\* Decimal.quantize(Decimal("0.01")) of an amount given in tenths of a cent,
\* in cents: no rounding argument, so the context's ROUND_HALF_EVEN applies
quantize(x) ==
    LET q == x \div 10
        r == x % 10 IN
    IF r < 5 THEN q
    ELSE IF r > 5 THEN q + 1
    ELSE IF q % 2 = 0 THEN q ELSE q + 1

\* Borrowing.payment_fee, in cents; daily_fee in cents
payment_fee(b, daily_fee) == quantize(daily_fee * borrowing_days(b) * 10)

\* Borrowing.fine_fee, in cents; fine_multiplier in tenths
fine_fee(b, daily_fee, fine_multiplier) ==
    IF ~was_returned_late(b) THEN 0
    ELSE LET days_late == b.actual_return_date - b.expected_return_date IN
         IF days_late <= 0 THEN 0
         ELSE quantize(days_late * daily_fee * fine_multiplier)

\* Borrowing.total_amount_due
total_amount_due(b, daily_fee, fine_multiplier) ==
    quantize((payment_fee(b, daily_fee) + fine_fee(b, daily_fee, fine_multiplier)) * 10)

\* Borrowing.days_overdue on day `today`
days_overdue(b, today) ==
    IF is_returned(b)
    THEN IF b.actual_return_date - b.expected_return_date > 0
         THEN b.actual_return_date - b.expected_return_date ELSE 0
    ELSE IF today > b.expected_return_date THEN today - b.expected_return_date ELSE 0

\* Borrowing.is_overdue on day `today`
is_overdue(b, today) ==
    IF is_returned(b) THEN was_returned_late(b) ELSE today > b.expected_return_date

\* the Payment rows of borrowing bid with the given type
PaymentsOf(rows, bid, type) ==
    {i \in 1..Len(rows) : rows[i].borrowing = bid /\ rows[i].type = type}

\* Borrowing.needs_fine_payment: self.payments.filter(type="FINE").exists()
needs_fine_payment(b, bid, rows) ==
    was_returned_late(b) /\ PaymentsOf(rows, bid, "FINE") = {}

ActiveLoans(book) ==
    Cardinality({i \in BorrowingIds :
                    borrowings[i].book = book /\ ~is_returned(borrowings[i])})

\* Payment.objects.filter(borrowing__user=user, status="pending").count()
pending_count(user) ==
    Cardinality({i \in PaymentIds :
                    /\ payments[i].status = "pending"
                    /\ borrowings[payments[i].borrowing].user = user})

\* Payment.objects.get(session_id=...): the matching row ids (at most one)
BySession(rows, sid) == {i \in 1..Len(rows) : rows[i].session_id = sid}

IdleReq == [pc |-> "idle", user |-> NULL, book |-> NULL, inv |-> 0, due |-> NULL,
            borrowing |-> NULL, old_returned |-> FALSE, type |-> "none"]

Response(op, status, result) ==
    [op |-> op, status |-> status, result |-> result]

IdleSweep == [pc |-> "idle", rows |-> << >>, now |-> 0, session |-> "none",
              status |-> "none", retries |-> 0, total_checked |-> 0,
              expired_count |-> 0, still_valid_count |-> 0, error_count |-> 0,
              errors |-> << >>]

IdleTask == [pc |-> "idle", id |-> NULL, copy |-> NULL]

IdleNotify == [pc |-> "idle", rows |-> << >>, status |-> "none", retries |-> 0,
               overdue_count |-> 0, successful_notifications |-> 0,
               failed_notifications |-> 0, failed_borrowing_ids |-> << >>,
               sent |-> << >>, pending |-> << >>, executions |-> 0]

\* ---------------------------------------------------------- Payment model
\* Payment.save(): a row that has a session and no expiry gets one
Payment_save(p, t) ==
    IF p.session_id # NULL /\ p.session_expires_at = NULL
    THEN [p EXCEPT !.session_expires_at = t + SessionHours]
    ELSE p

\* Payment.clean(): the session pair is whole, and a paid row has it
Payment_clean_lax(p) ==
    (p.session_url # NULL) = (p.session_id # NULL)

Payment_clean(p) ==
    /\ (p.session_url # NULL) = (p.session_id # NULL)
    /\ ~(p.status = "paid" /\ (p.session_url = NULL \/ p.session_id = NULL))

\* Payment.is_expired at time t
is_expired(p, t) ==
    \/ p.status = "pending" /\ p.session_expires_at # NULL /\ p.session_expires_at < t
    \/ p.status = "expired"

\* Payment.is_renewable at time t
is_renewable(p, t) == is_expired(p, t)

\* Payment.renew_session(session_id, session_url) at time t
renew_session(p, sid, url, t) ==
    [p EXCEPT !.session_id = sid, !.session_url = url,
              !.session_expires_at = t + SessionHours, !.status = "pending"]

\* Payment.expire_session() on an in-memory instance
expire_session(p) ==
    IF p.status = "pending" THEN [p EXCEPT !.status = "expired"] ELSE p

\* ------------------------------------------------------- checkout provider
\* StripeService.retrieve_checkout_session: None when the call fails or the
\* provider does not know the id
retrieve_checkout_session(sid, reachable) ==
    IF reachable /\ sid \in 1..Len(stripe) THEN stripe[sid].state ELSE "none"

\* the customer pays an open session
StripePay(s) ==
    /\ s \in 1..Len(stripe)
    /\ stripe[s].state = "open"
    /\ stripe' = [stripe EXCEPT ![s].state = "paid"]
    /\ UNCHANGED <<inventory, borrowings, payments, now, req, sweep, task, response, notify, catalog, FINE_MULTIPLIER>>

\* the provider expires an unpaid session once its expires_at has passed
StripeExpire(s) ==
    /\ s \in 1..Len(stripe)
    /\ stripe[s].state = "open"
    /\ now >= stripe[s].expires_at
    /\ stripe' = [stripe EXCEPT ![s].state = "expired"]
    /\ UNCHANGED <<inventory, borrowings, payments, now, req, sweep, task, response, notify, catalog, FINE_MULTIPLIER>>

\* the clock, observed once a day
Tick ==
    /\ now + 24 <= MaxDays * 24
    /\ now' = now + 24
    /\ UNCHANGED <<inventory, borrowings, payments, stripe, req, sweep, task, response, notify, catalog, FINE_MULTIPLIER>>

\* --------------------------------------------------------- Borrowing model
\* Borrowing.clean(): the date checks
Borrowing_clean(b, today) ==
    IF b.borrow_date > today THEN "BorrowDateInFuture"
    ELSE IF b.expected_return_date <= b.borrow_date THEN "ExpectedNotAfterBorrow"
    ELSE IF b.actual_return_date # NULL /\ b.actual_return_date < b.borrow_date
    THEN "ActualBeforeBorrow"
    ELSE "ok"

\* Meta.constraints: the three check constraints of the table
Borrowing_constraints(b) ==
    /\ b.expected_return_date > b.borrow_date
    /\ b.actual_return_date = NULL \/ b.actual_return_date >= b.borrow_date
    /\ b.expected_return_date <= b.borrow_date + YearDays

\* Borrowing.return_book(return_date) on an in-memory instance, up to
\* self.save(): the instance to save, or the ValidationError
Borrowing_return_book(b, return_date, today) ==
    LET date == IF return_date # NULL THEN return_date ELSE today IN
    IF b.actual_return_date # NULL
    THEN [error |-> "AlreadyReturned", borrowing |-> b]
    ELSE IF date < b.borrow_date
    THEN [error |-> "InvalidReturnDate", borrowing |-> b]
    ELSE IF date > today
    THEN [error |-> "InvalidReturnDate", borrowing |-> b]
    ELSE [error |-> "none", borrowing |-> [b EXCEPT !.actual_return_date = date]]

\* BorrowingCreateSerializer.validate_expected_return_date
validate_expected_return_date_uncapped(value, today) ==
    IF value <= today THEN "NotAfterToday"
    ELSE "ok"

validate_expected_return_date(value, today) ==
    IF value <= today THEN "NotAfterToday"
    ELSE IF value - today > max_days THEN "WindowExceeded"
    ELSE "ok"

\* ------------------------------------------------------ BorrowingViewSet
\* create(), up to serializer.is_valid(): the pending-payment check,
\* validate_book on the Book instance just read and validate_expected_return_date
\* (the request asks for a loan of d days, the accepted ones being 1..30)
CreateRead(p, u, b, d) ==
    /\ req[p].pc = "idle"
    /\ Len(borrowings) < MaxBorrowings
    /\ IF pending_count(u) > 0
       THEN /\ response' = Response("create", HttpBadRequest, "PendingPayments")
            /\ UNCHANGED req
       ELSE IF validate_expected_return_date(Today + d, Today) # "ok"
       THEN /\ response' = Response("create", HttpBadRequest,
                                    validate_expected_return_date(Today + d, Today))
            /\ UNCHANGED req
       ELSE IF ~catalog[b].exists
       THEN /\ response' = Response("create", HttpBadRequest, "BookNotFound")
            /\ UNCHANGED req
       ELSE IF ~is_available(inventory[b])
       THEN /\ response' = Response("create", HttpBadRequest, "BookUnavailable")
            /\ UNCHANGED req
       ELSE /\ req' = [req EXCEPT ![p] = [IdleReq EXCEPT !.pc = "create", !.user = u,
                                                    !.book = b, !.inv = inventory[b],
                                                    !.due = Today + d]]
            /\ UNCHANGED response
    /\ UNCHANGED <<inventory, borrowings, payments, stripe, now, sweep, task, notify, catalog, FINE_MULTIPLIER>>

\* create_payment_for_borrowing: the new Payment row, or no row when the
\* checkout session could not be created (row deleted, exception raised)
create_payment_for_borrowing(bid, b, ok, sid, t) ==
    IF ok
    THEN << Payment_save([borrowing |-> bid, type |-> "payment", status |-> "pending",
                          money_to_pay |-> payment_fee(b, catalog[b.book].daily_fee),
                          session_id |-> sid, session_url |-> sid,
                          session_expires_at |-> NULL], t) >>
    ELSE << >>

\* create(), from serializer.save() to the end of transaction.atomic:
\* Borrowing.save() (clean, Book.borrow on the in-memory Book), the Payment,
\* the checkout session, then commit or roll back
CreateCommit(p, ok) ==
    /\ req[p].pc = "create"
    /\ LET r == req[p]
           got == Book_borrow(r.inv)
           bid == Len(borrowings) + 1
           sid == Len(stripe) + 1
           new == [book |-> r.book, user |-> r.user, borrow_date |-> Today,
                   expected_return_date |-> r.due, actual_return_date |-> NULL]
           pay == create_payment_for_borrowing(bid, new, ok /\ sid <= MaxSessions, sid, now)
       IN
       IF Borrowing_clean(new, Today) # "ok" \/ ~Borrowing_constraints(new)
       THEN /\ response' = Response("create", HttpServerError, "ValidationError")
            /\ UNCHANGED <<inventory, borrowings, payments, stripe>>
       ELSE IF ~is_available(r.inv) \/ ~got.ok
       THEN /\ response' = Response("create", HttpServerError, "BookUnavailable")
            /\ UNCHANGED <<inventory, borrowings, payments, stripe>>
       ELSE IF pay = << >>
       THEN /\ response' = Response("create", HttpServerError, "PaymentFailed")
            /\ UNCHANGED <<inventory, borrowings, payments, stripe>>
       ELSE /\ inventory' = [inventory EXCEPT ![r.book] = got.inventory]
            /\ borrowings' = Append(borrowings, new)
            /\ payments' = payments \o pay
            /\ stripe' = Append(stripe, [state |-> "open",
                                         expires_at |-> now + SessionHours])
            /\ response' = Response("create", HttpCreated, "created")
    /\ req' = [req EXCEPT ![p] = IdleReq]
    /\ UNCHANGED <<now, sweep, task, notify, catalog, FINE_MULTIPLIER>>

\* return_book(): get_object() and the already-returned check
ReturnRead(p, bid) ==
    /\ req[p].pc = "idle"
    /\ bid \in BorrowingIds
    /\ LET b == borrowings[bid] IN
       IF is_returned(b)
       THEN /\ response' = Response("return_book", HttpBadRequest, "AlreadyReturned")
            /\ UNCHANGED req
       ELSE /\ req' = [req EXCEPT ![p] = [IdleReq EXCEPT !.pc = "return", !.user = b.user,
                                                    !.book = b.book, !.borrowing = bid,
                                                    !.inv = inventory[b.book]]]
            /\ UNCHANGED response
    /\ UNCHANGED <<inventory, borrowings, payments, stripe, now, sweep, task, notify, catalog, FINE_MULTIPLIER>>

\* Borrowing.save() of an existing row: re-read of the stored actual_return_date
ReturnReread(p) ==
    /\ req[p].pc = "return"
    /\ req' = [req EXCEPT ![p].pc = "return_save",
                          ![p].old_returned = is_returned(borrowings[req[p].borrowing])]
    /\ UNCHANGED <<inventory, borrowings, payments, stripe, now, sweep, task, response, notify, catalog, FINE_MULTIPLIER>>

\* create_fine_payment_for_borrowing(borrowing, request): the existing fine
\* is kept; a fine amount that is not positive raises ValueError; otherwise
\* the new fine Payment row, or no row when the checkout session could not
\* be created (row deleted, exception raised and logged)
create_fine_payment_for_borrowing(bid, b, ok, sid, t) ==
    LET fine_amount == fine_fee(b, catalog[b.book].daily_fee, FINE_MULTIPLIER) IN
    IF \E i \in PaymentIds : payments[i].borrowing = bid /\ payments[i].type = "fine"
    THEN << >>
    ELSE IF fine_amount <= 0
    THEN << >>
    ELSE IF ok
    THEN << Payment_save([borrowing |-> bid, type |-> "fine", status |-> "pending",
                          money_to_pay |-> fine_amount,
                          session_id |-> sid, session_url |-> sid,
                          session_expires_at |-> NULL], t) >>
    ELSE << >>

\* Borrowing.save(): Book.return_book() on the in-memory Book when the stored
\* row was not returned, then the row itself; the fine for a late return;
\* commit
ReturnCommit(p, ok) ==
    /\ req[p].pc = "return_save"
    /\ LET r == req[p]
           fetched == [borrowings[r.borrowing] EXCEPT !.actual_return_date = NULL]
           returned == Borrowing_return_book(fetched, NULL, Today).borrowing
           sid == Len(stripe) + 1
           fine == IF was_returned_late(returned)
                   THEN create_fine_payment_for_borrowing(r.borrowing, returned,
                                                          ok /\ sid <= MaxSessions, sid, now)
                   ELSE << >>
       IN
       /\ inventory' = IF r.old_returned THEN inventory
                       ELSE [inventory EXCEPT ![r.book] = Book_return_book(r.inv)]
       /\ borrowings' = [borrowings EXCEPT ![r.borrowing] = returned]
       /\ payments' = payments \o fine
       /\ stripe' = IF fine = << >> THEN stripe
                    ELSE Append(stripe, [state |-> "open",
                                         expires_at |-> now + SessionHours])
       /\ response' = Response("return_book", HttpOk, "returned")
    /\ req' = [req EXCEPT ![p] = IdleReq]
    /\ UNCHANGED <<now, sweep, task, notify, catalog, FINE_MULTIPLIER>>

\* --------------------------------------------------------------- webhook
\* The events a POST to webhook/ can carry.  sig: stripe.Webhook.construct_event
\* accepts the payload.
Events ==
    [sig : BOOLEAN, type : {"checkout.session.completed", "other"},
     session : SessionIds, payment_status : {"paid", "unpaid"}]

\* checkout.session.completed events of paid sessions, signature valid
PaidEvents ==
    {ev \in Events : ev.sig /\ ev.type = "checkout.session.completed"
                             /\ ev.payment_status = "paid"}

\* An event the provider really sent: a completed checkout of one of this
\* service's sessions is a paid one.  Ids beyond Len(stripe) are sessions of
\* the same account that this service never stored.
Genuine(ev) ==
    (ev.type = "checkout.session.completed" /\ ev.session \in 1..Len(stripe))
        => (stripe[ev.session].state = "paid" <=> ev.payment_status = "paid")

\* handle_checkout_completed answering 400 when it did not update the row
handle_checkout_completed_strict(rows, ev) ==
    LET found == BySession(rows, ev.session) IN
    IF found = {}
    THEN [payments |-> rows, status |-> HttpOk, log |-> "payment_not_found"]
    ELSE LET i == CHOOSE j \in found : TRUE IN
         IF rows[i].status = "pending" /\ ev.payment_status = "paid"
         THEN [payments |-> [rows EXCEPT ![i].status = "paid"],
               status |-> HttpOk, log |-> "marked_paid"]
         ELSE [payments |-> rows, status |-> HttpBadRequest, log |-> "not_updated"]

\* StripeWebhookView.handle_checkout_completed, under select_for_update
handle_checkout_completed(rows, ev) ==
    LET found == BySession(rows, ev.session) IN
    IF found = {}
    THEN [payments |-> rows, status |-> HttpOk, log |-> "payment_not_found"]
    ELSE LET i == CHOOSE j \in found : TRUE IN
         IF rows[i].status = "pending" /\ ev.payment_status = "paid"
         THEN [payments |-> [rows EXCEPT ![i].status = "paid"],
               status |-> HttpOk, log |-> "marked_paid"]
         ELSE [payments |-> rows, status |-> HttpOk, log |-> "not_updated"]

\* StripeWebhookView.post without the signature check
StripeWebhookView_post_unverified(rows, ev) ==
    IF ev.type = "checkout.session.completed"
    THEN handle_checkout_completed(rows, ev)
    ELSE [payments |-> rows, status |-> HttpOk, log |-> "unhandled_type"]

\* StripeWebhookView.post
StripeWebhookView_post(rows, ev) ==
    IF ~ev.sig
    THEN [payments |-> rows, status |-> HttpBadRequest, log |-> "invalid_signature"]
    ELSE IF ev.type = "checkout.session.completed"
    THEN handle_checkout_completed(rows, ev)
    ELSE [payments |-> rows, status |-> HttpOk, log |-> "unhandled_type"]

WebhookPost(ev) ==
    /\ ev.sig => Genuine(ev)
    /\ LET r == StripeWebhookView_post(payments, ev) IN
       /\ payments' = r.payments
       /\ response' = Response("webhook", r.status, r.log)
    /\ UNCHANGED <<inventory, borrowings, stripe, now, req, sweep, task, notify, catalog, FINE_MULTIPLIER>>

\* ------------------------------------------------ session expiration sweep
\* potentially_expired_payments, in Meta.ordering (newest first)
RECURSIVE potentially_expired_payments(_, _, _)
potentially_expired_payments(rows, t, n) ==
    IF n = 0 THEN << >>
    ELSE LET rest == potentially_expired_payments(rows, t, n - 1) IN
         IF /\ rows[n].status = "pending"
            /\ rows[n].session_id # NULL
            /\ rows[n].session_expires_at # NULL
            /\ rows[n].session_expires_at <= t
         THEN << [id |-> n, copy |-> rows[n]] >> \o rest
         ELSE rest

Candidates(n) == potentially_expired_payments(payments, now, n)

\* self.request.retries of the execution that starts now: a pending retry
\* carries its count, a scheduled run starts at zero
request_retries(s) == IF s.status = "retry" THEN s.retries ELSE 0

\* check_expired_stripe_sessions: the queryset is evaluated once; with no
\* candidate the loop is empty and the summary is returned at once
SweepStart ==
    /\ sweep.pc = "idle"
    /\ LET rows == Candidates(Len(payments)) IN
       sweep' = [IdleSweep EXCEPT
                   !.pc = IF rows = << >> THEN "idle" ELSE "rows",
                   !.rows = rows,
                   !.now = IF rows = << >> THEN 0 ELSE now,
                   !.status = IF rows = << >> THEN "completed" ELSE "running",
                   !.retries = request_retries(sweep),
                   !.total_checked = Len(rows)]
    /\ UNCHANGED <<inventory, borrowings, payments, stripe, now, req, task, response, notify, catalog, FINE_MULTIPLIER>>

\* self.retry(exc=exc, countdown=60) of a task with max_retries: the retry
\* is scheduled, or exc is raised once the retries are used up
Task_retry_unbounded(s) ==
    [IdleSweep EXCEPT !.status = "retry", !.retries = request_retries(s) + 1]

Task_retry(s) ==
    IF request_retries(s) < max_retries
    THEN [IdleSweep EXCEPT !.status = "retry", !.retries = request_retries(s) + 1]
    ELSE [IdleSweep EXCEPT !.status = "failed", !.retries = request_retries(s)]

\* check_expired_stripe_sessions: an exception outside the per-row try (the
\* queryset cannot be evaluated) reaches the outer except
SweepFail ==
    /\ sweep.pc = "idle"
    /\ sweep' = Task_retry(sweep)
    /\ UNCHANGED <<inventory, borrowings, payments, stripe, now, req, task, response, notify, catalog, FINE_MULTIPLIER>>

\* per row: StripeService.retrieve_checkout_session(payment.session_id)
SweepRetrieve(reachable) ==
    /\ sweep.pc = "rows"
    /\ sweep' = [sweep EXCEPT !.pc = "apply",
                   !.session = retrieve_checkout_session(Head(sweep.rows).copy.session_id,
                                                         reachable)]
    /\ UNCHANGED <<inventory, borrowings, payments, stripe, now, req, task, response, notify, catalog, FINE_MULTIPLIER>>

\* the row the sweep saves for one fetched instance and the provider's answer
sweep_row_expires_open(copy, session, t) ==
    IF session = "paid" THEN [copy EXCEPT !.status = "paid"]
    ELSE expire_session(copy)

sweep_row_open_unextended(copy, session, t) ==
    IF session = "none" THEN expire_session(copy)
    ELSE IF session = "expired" THEN expire_session(copy)
    ELSE IF session = "paid" THEN [copy EXCEPT !.status = "paid"]
    ELSE IF session = "open" THEN copy
    ELSE expire_session(copy)

sweep_row_leaves_paid(copy, session, t) ==
    IF session = "none" THEN expire_session(copy)
    ELSE IF session = "expired" THEN expire_session(copy)
    ELSE IF session = "paid" THEN copy
    ELSE IF session = "open" THEN [copy EXCEPT !.session_expires_at = t + ExtendHours]
    ELSE expire_session(copy)

sweep_row(copy, session, t) ==
    IF session = "none" THEN expire_session(copy)
    ELSE IF session = "expired" THEN expire_session(copy)
    ELSE IF session = "paid" THEN [copy EXCEPT !.status = "paid"]
    ELSE IF session = "open" THEN [copy EXCEPT !.session_expires_at = t + ExtendHours]
    ELSE expire_session(copy)

\* the counter a processed row adds to: still valid for paid and open,
\* expired for every other answer
sweep_count_paid_uncounted(s, session) ==
    IF session = "open"
    THEN [s EXCEPT !.still_valid_count = @ + 1]
    ELSE IF session = "paid" THEN s
    ELSE [s EXCEPT !.expired_count = @ + 1]

sweep_count(s, session) ==
    IF session \in {"paid", "open"}
    THEN [s EXCEPT !.still_valid_count = @ + 1]
    ELSE [s EXCEPT !.expired_count = @ + 1]

\* the loop after one row: the next row, or the summary that is returned
sweep_continue(s) ==
    LET rest == Tail(s.rows) IN
    IF rest = << >>
    THEN [s EXCEPT !.pc = "idle", !.rows = << >>, !.now = 0, !.session = "none",
                   !.status = "completed"]
    ELSE [s EXCEPT !.pc = "rows", !.rows = rest, !.session = "none"]

\* the per-row except branch: the error is counted and listed, and the loop
\* goes on
sweep_row_failed_aborts(s) ==
    [s EXCEPT !.pc = "idle", !.rows = << >>, !.now = 0, !.session = "none",
              !.status = "completed",
              !.error_count = @ + 1, !.errors = Append(@, Head(s.rows).id)]

sweep_row_failed(s) ==
    sweep_continue([s EXCEPT !.error_count = @ + 1,
                             !.errors = Append(@, Head(s.rows).id)])

\* per row: the branch on the answer and the save of the fetched instance
SweepApply ==
    /\ sweep.pc = "apply"
    /\ LET row == Head(sweep.rows) IN
       /\ payments' = [payments EXCEPT ![row.id] = sweep_row(row.copy, sweep.session, sweep.now)]
       /\ sweep' = sweep_continue(sweep_count(sweep, sweep.session))
    /\ UNCHANGED <<inventory, borrowings, stripe, now, req, task, response, notify, catalog, FINE_MULTIPLIER>>

\* per row: the save raises inside transaction.atomic, nothing is written
SweepRowError ==
    /\ sweep.pc = "apply"
    /\ sweep' = sweep_row_failed(sweep)
    /\ UNCHANGED <<inventory, borrowings, payments, stripe, now, req, task, response, notify, catalog, FINE_MULTIPLIER>>

\* the worker is stopped between two rows: the rows already processed are
\* committed, each in its own transaction, and the task returns nothing
SweepInterrupt ==
    /\ sweep.pc = "rows"
    /\ sweep' = IdleSweep
    /\ UNCHANGED <<inventory, borrowings, payments, stripe, now, req, task, response, notify, catalog, FINE_MULTIPLIER>>

\* the for loop over the fetched rows, run to its end on the table `rows`
\* at the run's clock t with the provider answering
RECURSIVE sweep_loop(_, _, _)
sweep_loop(rows, fetched, t) ==
    IF fetched = << >> THEN rows
    ELSE LET row == Head(fetched)
             session == retrieve_checkout_session(row.copy.session_id, TRUE)
         IN sweep_loop([rows EXCEPT ![row.id] = sweep_row(row.copy, session, t)],
                       Tail(fetched), t)

\* check_expired_stripe_sessions as one uninterrupted run on the table `rows`
check_expired_stripe_sessions(rows, t) ==
    sweep_loop(rows, potentially_expired_payments(rows, t, Len(rows)), t)

\* the table the run in progress leaves when it goes on to its end
SweepOutcome ==
    IF sweep.pc = "rows" THEN sweep_loop(payments, sweep.rows, sweep.now)
    ELSE IF sweep.pc = "apply"
    THEN LET row == Head(sweep.rows) IN
         sweep_loop([payments EXCEPT ![row.id] = sweep_row(row.copy, sweep.session, sweep.now)],
                    Tail(sweep.rows), sweep.now)
    ELSE payments

\* ------------------------------------------------ expire_payment_session
\* the two early returns: "skipped" for a row that is paid or expired
expire_skip_paid_only(status) ==
    IF status = "paid" THEN "skipped" ELSE "none"

expire_skip(status) ==
    IF status = "paid" THEN "skipped"
    ELSE IF status = "expired" THEN "skipped"
    ELSE "none"

\* the rest of the task on the fetched instance, given the provider's answer
\* ("none" also when the instance has no session_id)
expire_apply(copy, session) ==
    IF copy.session_id # NULL /\ session = "paid"
    THEN [payment |-> [copy EXCEPT !.status = "paid"], result |-> "updated_to_paid"]
    ELSE [payment |-> expire_session(copy), result |-> "expired"]

\* Payment.objects.get(id=payment_id) and the two early returns
ExpireRead(id) ==
    /\ task.pc = "idle"
    /\ id \in PaymentIds
    /\ IF expire_skip(payments[id].status) = "skipped"
       THEN /\ response' = Response("expire_payment_session", 0, "skipped")
            /\ UNCHANGED task
       ELSE /\ task' = [pc |-> "check", id |-> id, copy |-> payments[id]]
            /\ UNCHANGED response
    /\ UNCHANGED <<inventory, borrowings, payments, stripe, now, req, sweep, notify, catalog, FINE_MULTIPLIER>>

\* the provider check and the save of the fetched instance
ExpireApply(reachable) ==
    /\ task.pc = "check"
    /\ LET r == expire_apply(task.copy,
                             retrieve_checkout_session(task.copy.session_id, reachable)) IN
       /\ payments' = [payments EXCEPT ![task.id] = r.payment]
       /\ response' = Response("expire_payment_session", 0, r.result)
    /\ task' = IdleTask
    /\ UNCHANGED <<inventory, borrowings, stripe, now, req, sweep, notify, catalog, FINE_MULTIPLIER>>

\* ------------------------------------------------------- fine payments
\* Borrowing.total_fee, which Payment.save() reads for a row created without
\* an amount: the total amount due
total_fee(b) == total_amount_due(b, catalog[b.book].daily_fee, FINE_MULTIPLIER)

\* Borrowing.fine_fee of a stored borrowing
fine_amount(b) == fine_fee(b, catalog[b.book].daily_fee, FINE_MULTIPLIER)

\* a new Payment row as Payment.objects.create(...) and the later save of
\* the session pair leave it; sid = NULL: no checkout session was asked for
NewPayment(bid, type, amount, sid, t) ==
    Payment_save([borrowing |-> bid, type |-> type, status |-> "pending",
                  money_to_pay |-> IF amount = 0 THEN total_fee(borrowings[bid])
                                   ELSE amount,
                  session_id |-> sid, session_url |-> sid,
                  session_expires_at |-> NULL], t)

\* create_fine_for_borrowing(): the borrowing, the is_overdue check, then
\* get_or_create_fine_payment and create_fine_payment_for_borrowing up to
\* the existence check
FineRead(p, bid) ==
    /\ req[p].pc = "idle"
    /\ bid \in BorrowingIds
    /\ LET b == borrowings[bid]
           existing == PaymentsOf(payments, bid, "fine") IN
       IF ~is_overdue(b, Today)
       THEN /\ response' = Response("create_fine", HttpBadRequest, "not_overdue")
            /\ UNCHANGED req
       ELSE IF existing # {}
       THEN /\ response' = Response("create_fine", HttpCreated, "existing")
            /\ UNCHANGED req
       ELSE IF ~was_returned_late(b)
       THEN /\ response' = Response("create_fine", HttpServerError, "NotLate")
            /\ UNCHANGED req
       ELSE IF fine_amount(b) <= 0
       THEN /\ response' = Response("create_fine", HttpServerError, "NonPositiveFine")
            /\ UNCHANGED req
       ELSE /\ req' = [req EXCEPT ![p] = [IdleReq EXCEPT !.pc = "fine", !.borrowing = bid]]
            /\ UNCHANGED response
    /\ UNCHANGED <<inventory, borrowings, payments, stripe, now, sweep, task, notify, catalog, FINE_MULTIPLIER>>

\* create_fine_payment_for_borrowing from Payment.objects.create on: the row,
\* the checkout session, the save of the session pair or the delete
FineCommit(p, ok) ==
    /\ req[p].pc = "fine"
    /\ LET sid == Len(stripe) + 1 IN
       IF ok /\ sid <= MaxSessions
       THEN /\ payments' = Append(payments,
                                  NewPayment(req[p].borrowing, "fine",
                                             fine_amount(borrowings[req[p].borrowing]),
                                             sid, now))
            /\ stripe' = Append(stripe, [state |-> "open",
                                         expires_at |-> now + SessionHours])
            /\ response' = Response("create_fine", HttpCreated, "created")
       ELSE /\ response' = Response("create_fine", HttpServerError, "SessionFailed")
            /\ UNCHANGED <<payments, stripe>>
    /\ req' = [req EXCEPT ![p] = IdleReq]
    /\ UNCHANGED <<inventory, borrowings, now, sweep, task, notify, catalog, FINE_MULTIPLIER>>

\* create_overdue_fines: the rows the command leaves after it has called
\* create_fine_payment_for_borrowing(borrowing), without a request, for the
\* returned borrowings 1..n that have no fine payment
RECURSIVE overdue_fines(_, _)
overdue_fines(rows, n) ==
    IF n = 0 THEN rows
    ELSE LET done == overdue_fines(rows, n - 1) IN
         IF /\ is_returned(borrowings[n])
            /\ PaymentsOf(rows, n, "fine") = {}
            /\ was_returned_late(borrowings[n])
            /\ fine_amount(borrowings[n]) > 0
         THEN Append(done, NewPayment(n, "fine", fine_amount(borrowings[n]), NULL, now))
         ELSE done

\* manage.py create_overdue_fines
OverdueFinesCommand ==
    /\ payments' = overdue_fines(payments, Len(borrowings))
    /\ response' = Response("create_overdue_fines", 0,
                            IF payments' = payments THEN "none" ELSE "created")
    /\ UNCHANGED <<inventory, borrowings, stripe, now, req, sweep, task, notify, catalog, FINE_MULTIPLIER>>

\* ------------------------------------------------------- PaymentViewSet
\* PaymentCreateSerializer.validate_borrowing at time t: the error it raises
\* for borrowing bid, or "ok"
validate_borrowing(rows, bid, t) ==
    LET existing == {i \in 1..Len(rows) : rows[i].borrowing = bid
                                           /\ rows[i].status \in {"pending", "expired"}} IN
    IF \E i \in existing : rows[i].status = "pending" /\ ~is_expired(rows[i], t)
    THEN "DuplicateActivePayment"
    ELSE IF \E i \in existing : rows[i].status = "expired"
    THEN "ExpiredSessions"
    ELSE "ok"

\* create(), serializer.is_valid(): the requester names a borrowing they may
\* pay for and a type out of TYPE_CHOICES
PayCreateRead(p, bid, type) ==
    /\ req[p].pc = "idle"
    /\ bid \in BorrowingIds
    /\ LET v == validate_borrowing(payments, bid, now) IN
       IF v # "ok"
       THEN /\ response' = Response("create_payment", HttpBadRequest, v)
            /\ UNCHANGED req
       ELSE /\ req' = [req EXCEPT ![p] = [IdleReq EXCEPT !.pc = "pay", !.borrowing = bid,
                                                    !.type = type]]
            /\ UNCHANGED response
    /\ UNCHANGED <<inventory, borrowings, payments, stripe, now, sweep, task, notify, catalog, FINE_MULTIPLIER>>

\* create(), from serializer.save() on: the row, the checkout session, the
\* save of the session pair or the delete; commit
PayCreateCommit(p, ok) ==
    /\ req[p].pc = "pay"
    /\ LET sid == Len(stripe) + 1 IN
       IF ok /\ sid <= MaxSessions
       THEN /\ payments' = Append(payments,
                                  NewPayment(req[p].borrowing, req[p].type, 0, sid, now))
            /\ stripe' = Append(stripe, [state |-> "open",
                                         expires_at |-> now + SessionHours])
            /\ response' = Response("create_payment", HttpCreated, "created")
       ELSE /\ response' = Response("create_payment", HttpServerError, "SessionFailed")
            /\ UNCHANGED <<payments, stripe>>
    /\ req' = [req EXCEPT ![p] = IdleReq]
    /\ UNCHANGED <<inventory, borrowings, now, sweep, task, notify, catalog, FINE_MULTIPLIER>>

\* mark_paid() by a staff user: the row it saves, or the error
mark_paid(p) ==
    IF p.status = "paid"
    THEN [payment |-> p, status |-> HttpBadRequest, result |-> "already_paid"]
    ELSE IF ~Payment_clean([p EXCEPT !.status = "paid"])
    THEN [payment |-> p, status |-> HttpServerError, result |-> "ValidationError"]
    ELSE [payment |-> [p EXCEPT !.status = "paid"], status |-> HttpOk,
          result |-> "marked_paid"]

MarkPaid(id) ==
    /\ id \in PaymentIds
    /\ LET r == mark_paid(payments[id]) IN
       /\ payments' = [payments EXCEPT ![id] = r.payment]
       /\ response' = Response("mark_paid", r.status, r.result)
    /\ UNCHANGED <<inventory, borrowings, stripe, now, req, sweep, task, notify, catalog, FINE_MULTIPLIER>>

\* check_session(): the row it leaves and the answer, given what
\* retrieve_checkout_session returned
check_session(p, session) ==
    IF p.session_id = NULL
    THEN [payment |-> p, status |-> HttpBadRequest, result |-> "no_session"]
    ELSE IF session = "none"
    THEN [payment |-> p, status |-> HttpServerError, result |-> "no_retrieve"]
    ELSE IF session = "paid" /\ p.status = "pending"
    THEN [payment |-> [p EXCEPT !.status = "paid"], status |-> HttpOk,
          result |-> "marked_paid"]
    ELSE [payment |-> p, status |-> HttpOk, result |-> "not_updated"]

CheckSession(id, reachable) ==
    /\ id \in PaymentIds
    /\ LET r == check_session(payments[id],
                              retrieve_checkout_session(payments[id].session_id, reachable)) IN
       /\ payments' = [payments EXCEPT ![id] = r.payment]
       /\ response' = Response("check_session", r.status, r.result)
    /\ UNCHANGED <<inventory, borrowings, stripe, now, req, sweep, task, notify, catalog, FINE_MULTIPLIER>>

\* payment_success(): the rows it leaves and the answer for session sid
payment_success(rows, sid, session) ==
    LET found == BySession(rows, sid) IN
    IF session = "none"
    THEN [payments |-> rows, status |-> HttpBadRequest, result |-> "no_retrieve"]
    ELSE IF session # "paid"
    THEN [payments |-> rows, status |-> HttpAccepted, result |-> "not_completed"]
    ELSE IF found = {}
    THEN [payments |-> rows, status |-> HttpServerError, result |-> "payment_not_found"]
    ELSE LET i == CHOOSE j \in found : TRUE IN
         [payments |-> [rows EXCEPT ![i].status = "paid"], status |-> HttpOk,
          result |-> "paid"]

PaymentSuccess(sid, reachable) ==
    /\ LET r == payment_success(payments, sid, retrieve_checkout_session(sid, reachable)) IN
       /\ payments' = r.payments
       /\ response' = Response("payment_success", r.status, r.result)
    /\ UNCHANGED <<inventory, borrowings, stripe, now, req, sweep, task, notify, catalog, FINE_MULTIPLIER>>

\* sync_with_stripe() by a staff user: every pending row with a session whose
\* checkout session is paid becomes paid
sync_with_stripe(rows, reachable) ==
    [i \in 1..Len(rows) |->
        IF /\ rows[i].status = "pending"
           /\ rows[i].session_id # NULL
           /\ retrieve_checkout_session(rows[i].session_id, reachable) = "paid"
        THEN [rows[i] EXCEPT !.status = "paid"]
        ELSE rows[i]]

SyncWithStripe(reachable) ==
    /\ payments' = sync_with_stripe(payments, reachable)
    /\ response' = Response("sync_with_stripe", HttpOk,
                            IF payments' = payments THEN "none" ELSE "updated")
    /\ UNCHANGED <<inventory, borrowings, stripe, now, req, sweep, task, notify, catalog, FINE_MULTIPLIER>>

\* StripeService.renew_checkout_session(payment, request) at time t: the row
\* it leaves, whether a checkout session was created, and the result
renew_checkout_session_unguarded(p, ok, sid, t) ==
    IF ok
    THEN [payment |-> renew_session(p, sid, sid, t), session |-> TRUE,
          result |-> "renewed"]
    ELSE [payment |-> p, session |-> FALSE, result |-> "SessionFailed"]

renew_checkout_session_keeps_session(p, ok, sid, t) ==
    IF ~is_renewable(p, t)
    THEN [payment |-> p, session |-> FALSE, result |-> "NotRenewable"]
    ELSE IF ok
    THEN [payment |-> [p EXCEPT !.status = "pending"], session |-> TRUE,
          result |-> "renewed"]
    ELSE [payment |-> p, session |-> FALSE, result |-> "SessionFailed"]

renew_checkout_session(p, ok, sid, t) ==
    IF ~is_renewable(p, t)
    THEN [payment |-> p, session |-> FALSE, result |-> "NotRenewable"]
    ELSE IF ok
    THEN [payment |-> renew_session(p, sid, sid, t), session |-> TRUE,
          result |-> "renewed"]
    ELSE [payment |-> p, session |-> FALSE, result |-> "SessionFailed"]

\* a renewal request for payment id
RenewSession(id, ok) ==
    /\ id \in PaymentIds
    /\ LET sid == Len(stripe) + 1
           r == renew_checkout_session(payments[id], ok /\ sid <= MaxSessions, sid, now) IN
       /\ payments' = [payments EXCEPT ![id] = r.payment]
       /\ stripe' = IF r.session
                    THEN Append(stripe, [state |-> "open",
                                         expires_at |-> now + SessionHours])
                    ELSE stripe
       /\ response' = Response("renew_session", 0, r.result)
    /\ UNCHANGED <<inventory, borrowings, now, req, sweep, task, notify, catalog, FINE_MULTIPLIER>>

\* ------------------------------------------------ check_overdue_borrowings
\* the properties the Borrowing model defines
Borrowing_properties ==
    {"is_returned", "is_overdue", "was_returned_late", "needs_fine_payment",
     "borrowing_days", "payment_fee", "fine_fee", "total_amount_due", "days_overdue"}

\* the properties of the Borrowing the per-row message reads
message_reads == {"total_fee"}

\* overdue_borrowings: not returned and expected_return_date <= today
Overdue(today) ==
    {i \in BorrowingIds : /\ borrowings[i].actual_return_date = NULL
                          /\ borrowings[i].expected_return_date <= today}

\* order_by("expected_return_date", "user__email"), rows of the same user
\* and date in id order
Before(i, j) ==
    LET a == borrowings[i]
        b == borrowings[j] IN
    \/ a.expected_return_date < b.expected_return_date
    \/ a.expected_return_date = b.expected_return_date /\ a.user < b.user
    \/ a.expected_return_date = b.expected_return_date /\ a.user = b.user /\ i < j

RECURSIVE Ordered(_)
Ordered(ids) ==
    IF ids = {} THEN << >>
    ELSE LET first == CHOOSE i \in ids : \A j \in ids \ {i} : Before(i, j) IN
         << first >> \o Ordered(ids \ {first})

\* self.retry(...) called inside the outer try: it queues the retry and
\* raises Retry, an Exception, which the outer except catches and answers
\* with self.retry(exc=exc) again, queueing a second one; with the retries used up
\* the first call raises MaxRetriesExceededError and the second re-raises it
retry_in_try(s, r) ==
    IF r < max_retries
    THEN [s EXCEPT !.pc = "idle", !.rows = << >>, !.status = "retry",
                   !.pending = @ \o << r + 1, r + 1 >>]
    ELSE [s EXCEPT !.pc = "idle", !.rows = << >>, !.status = "failed"]

\* self.retry(exc=exc, countdown=60) in the outer except, for an exception
\* that is not a Retry
retry_in_except(s, r) ==
    IF r < max_retries
    THEN [s EXCEPT !.pc = "idle", !.rows = << >>, !.status = "retry",
                   !.pending = @ \o << r + 1 >>]
    ELSE [s EXCEPT !.pc = "idle", !.rows = << >>, !.status = "failed"]

\* one execution starts: a queued retry if there is one, else the scheduled
\* run; overdue_borrowings.count()
NotifyStart ==
    /\ notify.pc = "idle"
    /\ LET queued == notify.pending # << >>
           n == Cardinality(Overdue(Today)) IN
       notify' = [IdleNotify EXCEPT
                    !.pc = IF n = 0 THEN "clear" ELSE "fetch",
                    !.status = "running",
                    !.retries = IF queued THEN Head(notify.pending) ELSE 0,
                    !.pending = IF queued THEN Tail(notify.pending) ELSE << >>,
                    !.executions = IF queued THEN notify.executions + 1 ELSE 0,
                    !.overdue_count = n]
    /\ UNCHANGED <<inventory, borrowings, payments, stripe, now, req, sweep, task, response, catalog, FINE_MULTIPLIER>>

\* an exception outside the per-row try that is not a Retry (the count query fails)
NotifyFail ==
    /\ notify.pc = "idle"
    /\ LET queued == notify.pending # << >>
           started == [IdleNotify EXCEPT
                         !.retries = IF queued THEN Head(notify.pending) ELSE 0,
                         !.pending = IF queued THEN Tail(notify.pending) ELSE << >>,
                         !.executions = IF queued THEN notify.executions + 1 ELSE 0] IN
       notify' = retry_in_except(started, started.retries)
    /\ UNCHANGED <<inventory, borrowings, payments, stripe, now, req, sweep, task, response, catalog, FINE_MULTIPLIER>>

\* overdue_count == 0: the all-clear message; ok: send_telegram_message
\* returned True
NotifyAllClear(ok) ==
    /\ notify.pc = "clear"
    /\ notify' = IF ok
                 THEN [notify EXCEPT !.pc = "idle", !.status = "success"]
                 ELSE retry_in_try(notify, notify.retries)
    /\ UNCHANGED <<inventory, borrowings, payments, stripe, now, req, sweep, task, response, catalog, FINE_MULTIPLIER>>

\* the for loop evaluates the queryset
NotifyFetch ==
    /\ notify.pc = "fetch"
    /\ notify' = [notify EXCEPT !.pc = "rows", !.rows = Ordered(Overdue(Today))]
    /\ UNCHANGED <<inventory, borrowings, payments, stripe, now, req, sweep, task, response, catalog, FINE_MULTIPLIER>>

\* one iteration: the message is built, which raises AttributeError when it
\* reads a property the Borrowing does not have; else it is sent, ok being
\* the answer of send_telegram_message
notify_row(s, id, ok) ==
    IF ~(message_reads \subseteq Borrowing_properties)
    THEN [s EXCEPT !.failed_notifications = @ + 1,
                   !.failed_borrowing_ids = Append(@, id)]
    ELSE IF ok
    THEN [s EXCEPT !.sent = Append(@, id), !.successful_notifications = @ + 1]
    ELSE [s EXCEPT !.sent = Append(@, id), !.failed_notifications = @ + 1,
                   !.failed_borrowing_ids = Append(@, id)]

NotifyRow(ok) ==
    /\ notify.pc = "rows"
    /\ notify.rows # << >>
    /\ notify' = [notify_row(notify, Head(notify.rows), ok) EXCEPT
                    !.rows = Tail(notify.rows)]
    /\ UNCHANGED <<inventory, borrowings, payments, stripe, now, req, sweep, task, response, catalog, FINE_MULTIPLIER>>

\* after the loop: the summary message (its result is only logged), then the
\* retry when more notifications failed than succeeded
NotifySummary ==
    /\ notify.pc = "rows"
    /\ notify.rows = << >>
    /\ notify' = IF notify.failed_notifications > notify.successful_notifications
                 THEN retry_in_try(notify, notify.retries)
                 ELSE [notify EXCEPT !.pc = "idle", !.status = "completed"]
    /\ UNCHANGED <<inventory, borrowings, payments, stripe, now, req, sweep, task, response, catalog, FINE_MULTIPLIER>>

\* ------------------------------------------------ send_overdue_notification
\* pytz.timezone("Europe/Kyiv"): hours ahead of UTC (3 in summer)
KyivOffsetHours == 2

\* timezone.now().date(): the date of the aware UTC datetime, `now` counting
\* the hours of the reference timezone
utc_today == ((now - KyivOffsetHours) \div 24) + 1

\* check_overdue_borrowings: days_overdue = (today - expected_return_date).days
sweep_days_overdue(b, today) == today - b.expected_return_date

\* send_overdue_notification on the fetched borrowing b: the early returns,
\* the days it computes, and the message, which raises AttributeError when
\* it reads a property the Borrowing does not have (caught by the last
\* except); ok is the answer of send_telegram_message
send_overdue_notification(b, today, ok) ==
    IF b.actual_return_date # NULL
    THEN [status |-> "skipped", reason |-> "BookAlreadyReturned", days_overdue |-> 0]
    ELSE IF b.expected_return_date > today
    THEN [status |-> "skipped", reason |-> "NotOverdueYet", days_overdue |-> 0]
    ELSE LET days == today - b.expected_return_date IN
         IF ~(message_reads \subseteq Borrowing_properties)
         THEN [status |-> "error", reason |-> "AttributeError", days_overdue |-> days]
         ELSE IF ok
         THEN [status |-> "success", reason |-> "sent", days_overdue |-> days]
         ELSE [status |-> "failed", reason |-> "not sent", days_overdue |-> days]

\* the task for one borrowing id
SendOverdueNotification(bid, ok) ==
    /\ IF bid \notin BorrowingIds
       THEN response' = Response("send_overdue_notification", 0, "BorrowingNotFound")
       ELSE LET r == send_overdue_notification(borrowings[bid], utc_today, ok) IN
            response' = Response("send_overdue_notification", 0, r.reason)
    /\ UNCHANGED <<inventory, borrowings, payments, stripe, now, req, sweep, task, notify, catalog, FINE_MULTIPLIER>>

\* the clock read at other hours than midnight of the reference timezone
TickHours(h) ==
    /\ now + h <= MaxDays * 24
    /\ now' = now + h
    /\ UNCHANGED <<inventory, borrowings, payments, stripe, req, sweep, task, response, notify, catalog, FINE_MULTIPLIER>>

\* ------------------------------------------- update, destroy and clean-up
\* no request, sweep or task holds rows in memory; the requests below are
\* modelled at such moments, ids being positions in the tables
Quiet ==
    /\ \A p \in Procs : req[p].pc = "idle"
    /\ sweep.pc = "idle"
    /\ task.pc = "idle"
    /\ notify.pc = "idle"

\* BorrowingViewSet.update (PUT and PATCH)
BorrowingUpdate(bid) ==
    /\ bid \in BorrowingIds
    /\ response' = Response("update", HttpMethodNotAllowed, "MethodNotAllowed")
    /\ UNCHANGED <<inventory, borrowings, payments, stripe, now, req, sweep, task, notify, catalog, FINE_MULTIPLIER>>

\* BorrowingViewSet.destroy
BorrowingDestroy(bid) ==
    /\ bid \in BorrowingIds
    /\ response' = Response("destroy", HttpMethodNotAllowed, "MethodNotAllowed")
    /\ UNCHANGED <<inventory, borrowings, payments, stripe, now, req, sweep, task, notify, catalog, FINE_MULTIPLIER>>

\* the rows of a table that stay when the rows `gone` are deleted, in id order
Remaining(rows, gone) ==
    LET kept == (1..Len(rows)) \ gone
        nth(k) == CHOOSE i \in kept : Cardinality({j \in kept : j <= i}) = k IN
    [k \in 1..Cardinality(kept) |-> rows[nth(k)]]

\* the id a row has among the remaining rows
NewId(i, gone) == Cardinality({j \in 1..i : j \notin gone})

\* PaymentViewSet.destroy: a payment that is not paid is deleted
PaymentDestroy(id) ==
    /\ Quiet
    /\ id \in PaymentIds
    /\ IF payments[id].status = "paid"
       THEN /\ response' = Response("destroy_payment", HttpBadRequest, "CannotDeletePaid")
            /\ UNCHANGED payments
       ELSE /\ response' = Response("destroy_payment", HttpNoContent, "deleted")
            /\ payments' = Remaining(payments, {id})
    /\ UNCHANGED <<inventory, borrowings, stripe, now, req, sweep, task, notify, catalog, FINE_MULTIPLIER>>

\* permissions.SAFE_METHODS
SAFE_METHODS == {"GET", "HEAD", "OPTIONS"}

\* request.user as the view's authentication_classes leave it; staff: the
\* request carries the token of a staff user
AnonymousUser == [is_authenticated |-> FALSE, is_staff |-> FALSE]

BookViewSet_user_authenticated(staff) == [is_authenticated |-> TRUE, is_staff |-> staff]

\* BookViewSet: authentication_classes = [], so no request is authenticated
BookViewSet_user(staff) == AnonymousUser

\* IsAdminOrReadOnly.has_permission
IsAdminOrReadOnly(method, user) ==
    method \in SAFE_METHODS \/ (user.is_authenticated /\ user.is_staff)

\* BookViewSet.destroy (ModelViewSet): refused without permission; else
\* Book.delete() takes the rows that reference the book with it,
\* Borrowing.book and Payment.borrowing being on_delete=CASCADE
BookDestroy(b, staff) ==
    /\ catalog[b].exists
    /\ IF ~IsAdminOrReadOnly("DELETE", BookViewSet_user(staff))
       THEN /\ response' = Response("destroy_book", HttpForbidden, "PermissionDenied")
            /\ UNCHANGED <<catalog, borrowings, payments>>
       ELSE /\ Quiet
            /\ LET gone == {i \in BorrowingIds : borrowings[i].book = b}
                   paid == {i \in PaymentIds : payments[i].borrowing \in gone}
                   left == Remaining(payments, paid) IN
               /\ catalog' = [catalog EXCEPT ![b].exists = FALSE]
               /\ borrowings' = Remaining(borrowings, gone)
               /\ payments' = [k \in 1..Len(left) |->
                                  [left[k] EXCEPT !.borrowing = NewId(@, gone)]]
            /\ response' = Response("destroy_book", HttpNoContent, "deleted")
    /\ UNCHANGED <<inventory, stripe, now, req, sweep, task, notify, FINE_MULTIPLIER>>

\* ------------------------------------------------------------------ Init
Init ==
    /\ inventory = [b \in Books |-> InitInventory]
    /\ borrowings = << >>
    /\ payments = << >>
    /\ stripe = << >>
    /\ now = 0
    /\ req = [p \in Procs |-> IdleReq]
    /\ sweep = IdleSweep
    /\ task = IdleTask
    /\ response = Response("none", 0, "none")
    /\ notify = IdleNotify
    /\ catalog = [b \in Books |-> [exists |-> TRUE, daily_fee |-> MaxDailyFee]]
    /\ FINE_MULTIPLIER = DefaultFineMultiplier

Next ==
    \/ \E p \in Procs, u \in Users, b \in Books, d \in 1..MaxLoanDays : CreateRead(p, u, b, d)
    \/ \E p \in Procs, ok \in BOOLEAN : CreateCommit(p, ok)
    \/ \E p \in Procs, bid \in 1..MaxBorrowings : ReturnRead(p, bid)
    \/ \E p \in Procs : ReturnReread(p)
    \/ \E p \in Procs, ok \in BOOLEAN : ReturnCommit(p, ok)
    \/ \E s \in SessionIds : StripePay(s)
    \/ \E s \in SessionIds : StripeExpire(s)
    \/ Tick
    \/ \E ev \in Events : WebhookPost(ev)
    \/ SweepStart
    \/ \E reachable \in BOOLEAN : SweepRetrieve(reachable)
    \/ SweepApply
    \/ SweepRowError
    \/ SweepFail
    \/ \E id \in 1..MaxBorrowings : ExpireRead(id)
    \/ \E reachable \in BOOLEAN : ExpireApply(reachable)
    \/ \E p \in Procs, bid \in 1..MaxBorrowings : FineRead(p, bid)
    \/ \E p \in Procs, ok \in BOOLEAN : FineCommit(p, ok)
    \/ OverdueFinesCommand
    \/ \E p \in Procs, bid \in 1..MaxBorrowings, type \in PaymentTypes : PayCreateRead(p, bid, type)
    \/ \E p \in Procs, ok \in BOOLEAN : PayCreateCommit(p, ok)
    \/ \E id \in SessionIds : MarkPaid(id)
    \/ \E id \in SessionIds, reachable \in BOOLEAN : CheckSession(id, reachable)
    \/ \E sid \in SessionIds, reachable \in BOOLEAN : PaymentSuccess(sid, reachable)
    \/ \E reachable \in BOOLEAN : SyncWithStripe(reachable)
    \/ \E id \in SessionIds, ok \in BOOLEAN : RenewSession(id, ok)
    \/ NotifyStart
    \/ NotifyFail
    \/ \E ok \in BOOLEAN : NotifyAllClear(ok)
    \/ NotifyFetch
    \/ \E ok \in BOOLEAN : NotifyRow(ok)
    \/ NotifySummary
    \/ \E bid \in 1..MaxBorrowings : BorrowingUpdate(bid)
    \/ \E bid \in 1..MaxBorrowings : BorrowingDestroy(bid)
    \/ \E id \in SessionIds : PaymentDestroy(id)
    \/ \E b \in Books, staff \in BOOLEAN : BookDestroy(b, staff)

Spec == Init /\ [][Next]_vars

\* Borrowing and returning by concurrent requests; payments are settled by
\* the customer paying and the provider's webhook.
NextLoans ==
    \/ \E p \in Procs, u \in Users, b \in Books, d \in 1..MaxLoanDays : CreateRead(p, u, b, d)
    \/ \E p \in Procs, ok \in BOOLEAN : CreateCommit(p, ok)
    \/ \E p \in Procs, bid \in 1..MaxBorrowings : ReturnRead(p, bid)
    \/ \E p \in Procs : ReturnReread(p)
    \/ \E p \in Procs, ok \in BOOLEAN : ReturnCommit(p, ok)
    \/ \E s \in SessionIds : StripePay(s)
    \/ \E ev \in PaidEvents : WebhookPost(ev)

SpecLoans == Init /\ [][NextLoans]_vars

\* The payment lifecycle: payments created by borrowing requests served one
\* at a time, the provider, the clock, the webhook, the sweep and the
\* single-payment expire task.
NextPayments ==
    \/ \E u \in Users, b \in Books, d \in 1..MaxLoanDays : CreateRead(1, u, b, d)
    \/ \E ok \in BOOLEAN : CreateCommit(1, ok)
    \/ \E s \in SessionIds : StripePay(s)
    \/ \E s \in SessionIds : StripeExpire(s)
    \/ Tick
    \/ \E ev \in Events : WebhookPost(ev)
    \/ SweepStart
    \/ \E reachable \in BOOLEAN : SweepRetrieve(reachable)
    \/ SweepApply
    \/ \E id \in 1..MaxBorrowings : ExpireRead(id)
    \/ \E reachable \in BOOLEAN : ExpireApply(reachable)

SpecPayments == Init /\ [][NextPayments]_vars

\* Marking paid and renewing: the payment of one borrowing, paid at the
\* provider or not, expired by the sweep or the expire task, marked paid by
\* the webhook, the sweep, the success callback, check_session, mark_paid or
\* sync_with_stripe, and renewed.
NextRenew ==
    \/ \E b \in Books, d \in 1..MaxLoanDays : CreateRead(1, 1, b, d)
    \/ \E ok \in BOOLEAN : CreateCommit(1, ok)
    \/ \E s \in SessionIds : StripePay(s)
    \/ Tick
    \/ \E ev \in PaidEvents : WebhookPost(ev)
    \/ SweepStart
    \/ \E reachable \in BOOLEAN : SweepRetrieve(reachable)
    \/ SweepApply
    \/ \E id \in 1..MaxBorrowings : ExpireRead(id)
    \/ \E reachable \in BOOLEAN : ExpireApply(reachable)
    \/ \E id \in SessionIds : MarkPaid(id)
    \/ \E id \in SessionIds, reachable \in BOOLEAN : CheckSession(id, reachable)
    \/ \E sid \in SessionIds, reachable \in BOOLEAN : PaymentSuccess(sid, reachable)
    \/ \E reachable \in BOOLEAN : SyncWithStripe(reachable)
    \/ \E id \in SessionIds, ok \in BOOLEAN : RenewSession(id, ok)

SpecRenew == Init /\ [][NextRenew]_vars

\* Fines and payments asked for directly: one worker borrows and returns
\* for user 1 over several days, staff mark payments paid, and fine payments and
\* payments are created by the return itself, by create_fine_for_borrowing
\* and POST /payments/ on concurrent workers, and by create_overdue_fines.
NextFines ==
    \/ \E b \in Books, d \in 1..MaxLoanDays : CreateRead(1, 1, b, d)
    \/ \E ok \in BOOLEAN : CreateCommit(1, ok)
    \/ \E bid \in 1..MaxBorrowings : ReturnRead(1, bid)
    \/ ReturnReread(1)
    \/ \E ok \in BOOLEAN : ReturnCommit(1, ok)
    \/ Tick
    \/ \E id \in SessionIds : MarkPaid(id)
    \/ \E p \in Procs, bid \in 1..MaxBorrowings : FineRead(p, bid)
    \/ \E p \in Procs, ok \in BOOLEAN : FineCommit(p, ok)
    \/ OverdueFinesCommand
    \/ \E p \in Procs, bid \in 1..MaxBorrowings, type \in PaymentTypes : PayCreateRead(p, bid, type)
    \/ \E p \in Procs, ok \in BOOLEAN : PayCreateCommit(p, ok)

SpecFines == Init /\ [][NextFines]_vars

\* The fine of a late return alone: borrow, return late, and the fine asked
\* for by return_book, by create_fine_for_borrowing on concurrent workers and
\* by create_overdue_fines.
NextFineRace ==
    \/ \E b \in Books, d \in 1..MaxLoanDays : CreateRead(1, 1, b, d)
    \/ \E ok \in BOOLEAN : CreateCommit(1, ok)
    \/ \E bid \in 1..MaxBorrowings : ReturnRead(1, bid)
    \/ ReturnReread(1)
    \/ \E ok \in BOOLEAN : ReturnCommit(1, ok)
    \/ Tick
    \/ \E p \in Procs, bid \in 1..MaxBorrowings : FineRead(p, bid)
    \/ \E p \in Procs, ok \in BOOLEAN : FineCommit(p, ok)
    \/ OverdueFinesCommand

SpecFineRace == Init /\ [][NextFineRace]_vars

\* The session expiration sweep over several rows: two users borrow the one
\* copy in turn, sessions are paid or expire at the provider, and the sweep
\* runs, with rows that fail and runs that fail as a whole.
NextSweep ==
    \/ \E u \in Users, b \in Books, d \in 1..MaxLoanDays : CreateRead(1, u, b, d)
    \/ CreateCommit(1, TRUE)
    \/ \E bid \in 1..MaxBorrowings : ReturnRead(1, bid)
    \/ ReturnReread(1)
    \/ ReturnCommit(1, TRUE)
    \/ \E s \in SessionIds : StripePay(s)
    \/ \E s \in SessionIds : StripeExpire(s)
    \/ Tick
    \/ SweepStart
    \/ \E reachable \in BOOLEAN : SweepRetrieve(reachable)
    \/ SweepApply
    \/ SweepRowError
    \/ SweepFail

SpecSweep == Init /\ [][NextSweep]_vars

\* The overdue notification sweep: two users borrow the one copy in turn,
\* days pass, books come back, and the sweep runs, is retried and fails.
NextNotify ==
    \/ \E u \in Users, b \in Books, d \in 1..MaxLoanDays : CreateRead(1, u, b, d)
    \/ CreateCommit(1, TRUE)
    \/ \E bid \in 1..MaxBorrowings : ReturnRead(1, bid)
    \/ ReturnReread(1)
    \/ ReturnCommit(1, TRUE)
    \/ Tick
    \/ NotifyStart
    \/ NotifyFail
    \/ \E ok \in BOOLEAN : NotifyAllClear(ok)
    \/ NotifyFetch
    \/ \E ok \in BOOLEAN : NotifyRow(ok)
    \/ NotifySummary

SpecNotify == Init /\ [][NextNotify]_vars

\* the loan lengths a request can ask for: none, the accepted ones, and one
\* day more than the serializer's maximum
LoanDays == 0..MaxLoanDays \cup {max_days + 1}

\* Borrowing and returning over several days: one worker creates borrowings
\* with any requested date, concurrent workers return them.
NextBorrow ==
    \/ \E u \in Users, b \in Books, d \in LoanDays : CreateRead(1, u, b, d)
    \/ \E ok \in BOOLEAN : CreateCommit(1, ok)
    \/ \E p \in Procs, bid \in 1..MaxBorrowings : ReturnRead(p, bid)
    \/ \E p \in Procs : ReturnReread(p)
    \/ \E p \in Procs, ok \in BOOLEAN : ReturnCommit(p, ok)
    \/ \E id \in SessionIds : MarkPaid(id)
    \/ Tick

SpecBorrow == Init /\ [][NextBorrow]_vars

\* the daily fees, in cents, and the FINE_MULTIPLIER settings, in tenths, a
\* deployment is configured with
DailyFees == 1..MaxDailyFee
FineMultipliers == {m \in 1..MaxFineMultiplier : m % 5 = 0}

InitFees ==
    /\ inventory = [b \in Books |-> InitInventory]
    /\ borrowings = << >>
    /\ payments = << >>
    /\ stripe = << >>
    /\ now = 0
    /\ req = [p \in Procs |-> IdleReq]
    /\ sweep = IdleSweep
    /\ task = IdleTask
    /\ response = Response("none", 0, "none")
    /\ notify = IdleNotify
    /\ catalog \in [Books -> [exists : {TRUE}, daily_fee : DailyFees]]
    /\ FINE_MULTIPLIER \in FineMultipliers

\* Fees of borrowings: a book with any daily fee is lent and comes back on
\* time or late, under any configured multiplier.
NextFees ==
    \/ \E u \in Users, b \in Books, d \in 1..MaxLoanDays : CreateRead(1, u, b, d)
    \/ CreateCommit(1, TRUE)
    \/ \E bid \in 1..MaxBorrowings : ReturnRead(1, bid)
    \/ ReturnReread(1)
    \/ ReturnCommit(1, TRUE)
    \/ \E id \in SessionIds : MarkPaid(id)
    \/ Tick

SpecFees == InitFees /\ [][NextFees]_vars

\* The history of borrowings: books are lent, paid for and returned while
\* requests to update or delete borrowings, to delete payments and to delete
\* books from the catalog arrive.
NextCatalog ==
    \/ \E u \in Users, b \in Books, d \in 1..MaxLoanDays : CreateRead(1, u, b, d)
    \/ CreateCommit(1, TRUE)
    \/ \E bid \in 1..MaxBorrowings : ReturnRead(1, bid)
    \/ ReturnReread(1)
    \/ ReturnCommit(1, TRUE)
    \/ \E id \in SessionIds : MarkPaid(id)
    \/ Tick
    \/ \E bid \in 1..MaxBorrowings : BorrowingUpdate(bid)
    \/ \E bid \in 1..MaxBorrowings : BorrowingDestroy(bid)
    \/ \E id \in SessionIds : PaymentDestroy(id)
    \/ \E b \in Books, staff \in BOOLEAN : BookDestroy(b, staff)

SpecCatalog == Init /\ [][NextCatalog]_vars

\* The sweep as a periodic job with the provider reachable and no webhook
\* delivered: borrowings and payments are created while a session created now can still
\* run out within the days observed, customers pay and the provider expires
\* sessions before the last day observed, and books come back.
LastHour == MaxDays * 24

NextSweepFair ==
    \/ \E b \in Books, d \in 1..MaxLoanDays :
          now + SessionHours <= LastHour /\ CreateRead(1, 1, b, d)
    \/ \E ok \in BOOLEAN : CreateCommit(1, ok)
    \/ \E bid \in 1..MaxBorrowings : ReturnRead(1, bid)
    \/ ReturnReread(1)
    \/ ReturnCommit(1, TRUE)
    \/ \E bid \in 1..MaxBorrowings, type \in PaymentTypes :
          now + SessionHours <= LastHour /\ PayCreateRead(1, bid, type)
    \/ \E ok \in BOOLEAN : PayCreateCommit(1, ok)
    \/ \E s \in SessionIds : now < LastHour /\ StripePay(s)
    \/ \E s \in SessionIds : now < LastHour /\ StripeExpire(s)
    \/ Tick
    \/ SweepStart
    \/ SweepRetrieve(TRUE)
    \/ SweepApply

\* the clock advances, and the scheduled sweep starts and gets on
SpecSweepFair ==
    /\ Init
    /\ [][NextSweepFair]_vars
    /\ WF_vars(Tick)
    /\ WF_vars(SweepStart)
    /\ WF_vars(SweepRetrieve(TRUE))
    /\ WF_vars(SweepApply)

\* The sweep run, interrupted and run again while nothing else moves:
\* requests are served, customers pay, sessions expire and the clock advances
\* only between runs.
SweepIdle == sweep.pc = "idle"

NextRerun ==
    \/ \E u \in Users, b \in Books, d \in 1..MaxLoanDays :
          SweepIdle /\ CreateRead(1, u, b, d)
    \/ SweepIdle /\ CreateCommit(1, TRUE)
    \/ \E bid \in 1..MaxBorrowings : SweepIdle /\ ReturnRead(1, bid)
    \/ SweepIdle /\ ReturnReread(1)
    \/ SweepIdle /\ ReturnCommit(1, TRUE)
    \/ \E s \in SessionIds : SweepIdle /\ StripePay(s)
    \/ \E s \in SessionIds : SweepIdle /\ StripeExpire(s)
    \/ SweepIdle /\ Tick
    \/ SweepStart
    \/ SweepRetrieve(TRUE)
    \/ SweepApply
    \/ SweepInterrupt

SpecRerun == Init /\ [][NextRerun]_vars

\* The two notification tasks and the Borrowing model read the clock at
\* midnight of the reference timezone and at midnight UTC, which comes
\* KyivOffsetHours later.
ClockSteps == {KyivOffsetHours, 24 - KyivOffsetHours}

NextClock ==
    \/ \E u \in Users, b \in Books, d \in 1..MaxLoanDays : CreateRead(1, u, b, d)
    \/ CreateCommit(1, TRUE)
    \/ \E bid \in 1..MaxBorrowings : ReturnRead(1, bid)
    \/ ReturnReread(1)
    \/ ReturnCommit(1, TRUE)
    \/ \E h \in ClockSteps : (now + h) % 24 \in {0, KyivOffsetHours} /\ TickHours(h)
    \/ NotifyStart
    \/ NotifyAllClear(TRUE)
    \/ NotifyFetch
    \/ \E ok \in BOOLEAN : NotifyRow(ok)
    \/ NotifySummary
    \/ \E bid \in 1..MaxBorrowings, ok \in BOOLEAN : SendOverdueNotification(bid, ok)

SpecClock == Init /\ [][NextClock]_vars

\* =================================================================== claims
\* the request of worker p that ends in this step is a borrowing creation
CreateEnds(p) == req[p].pc = "create" /\ req'[p].pc = "idle"

\* C1: of the borrow attempts racing for the last copy of a book exactly one
\* succeeds, so a book never has more unreturned borrowings than copies.
C1_LastCopyLentOnce ==
    \A b \in Books : ActiveLoans(b) <= InitInventory

\* C2: the inventory of every book is >= 0 in every reachable state.
C2_InventoryNonNegative ==
    \A b \in Books : inventory[b] >= 0

C2_Witness ==
    \E b \in Books :
        /\ inventory[b] = 0
        /\ ActiveLoans(b) >= 1
        /\ \E i \in BorrowingIds : borrowings[i].book = b /\ is_returned(borrowings[i])

\* C3: inventory plus the number of unreturned borrowings of a book is
\* constant, so borrow followed by return restores the inventory.
C3_InventoryPlusActiveConstant ==
    \A b \in Books : inventory[b] + ActiveLoans(b) = InitInventory

\* C4: the decrement attempt of createBorrowing fails with BookUnavailable
\* if and only if the committed inventory is 0 at that moment.
C4_UnavailableIffEmpty ==
    [][\A p \in Procs :
          CreateEnds(p) =>
              (response'.result = "BookUnavailable" <=> inventory[req[p].book] = 0)]_vars

\* C5: createBorrowing is all or nothing: a failed call leaves borrowings,
\* payments and inventory as they were; a successful one adds exactly one
\* Borrowing and one pending payment-type Payment for it and takes exactly
\* one copy from the inventory.
C5_CreateIsAtomicUnit ==
    [][\A p \in Procs :
          CreateEnds(p) =>
              IF response'.result = "created"
              THEN /\ Len(borrowings') = Len(borrowings) + 1
                   /\ Len(payments') = Len(payments) + 1
                   /\ payments'[Len(payments')].borrowing = Len(borrowings')
                   /\ payments'[Len(payments')].type = "payment"
                   /\ payments'[Len(payments')].status = "pending"
                   /\ inventory'[req[p].book] = inventory[req[p].book] - 1
              ELSE /\ borrowings' = borrowings
                   /\ payments' = payments
                   /\ inventory' = inventory]_vars

\* C6: the sweep never overwrites a status that was set to PAID after the
\* sweep fetched the row as PENDING.
C6_SweepKeepsPaid ==
    [][(sweep.pc = "apply" /\ sweep' # sweep
            /\ payments[Head(sweep.rows).id].status = "paid")
          => payments'[Head(sweep.rows).id].status = "paid"]_vars

\* C7: every status change is PENDING->PAID, PENDING->EXPIRED,
\* EXPIRED->PENDING or EXPIRED->PAID; PAID never changes.
C7_StatusTransitions ==
    [][\A i \in PaymentIds :
          payments'[i].status # payments[i].status =>
              <<payments[i].status, payments'[i].status>> \in
                  {<<"pending", "paid">>, <<"pending", "expired">>,
                   <<"expired", "pending">>, <<"expired", "paid">>}]_vars

\* C8: the single-payment expire task skips a PAID or EXPIRED payment
\* (result "skipped", nothing written) and sets a PENDING payment whose
\* remote session is not paid to EXPIRED.
C8_ExpireTask ==
    /\ [](\A i \in PaymentIds :
            payments[i].status \in {"paid", "expired"}
                => expire_skip(payments[i].status) = "skipped")
    /\ [][/\ (response' # response /\ response'.op = "expire_payment_session"
                 /\ response'.result = "skipped")
             => (payments' = payments /\ task' = task)
          /\ (task.pc = "check" /\ task'.pc = "idle")
             => /\ response'.result # "skipped"
                /\ (task.copy.status = "pending"
                      /\ (\A s \in 1..Len(stripe) :
                             s = task.copy.session_id => stripe[s].state # "paid"))
                   => payments'[task.id].status = "expired"]_vars

C8_Witness ==
    /\ response.op = "expire_payment_session"
    /\ response.result = "skipped"
    /\ task.pc = "idle"
    /\ \E i \in PaymentIds : payments[i].status = "expired"

C10_WebhookRejectsAndIgnores ==
    /\ [](\A ev \in Events :
            LET r == StripeWebhookView_post(payments, ev) IN
            /\ ~ev.sig => (r.payments = payments /\ r.status = HttpBadRequest)
            /\ (ev.sig /\ BySession(payments, ev.session) = {})
                  => (r.payments = payments /\ r.status = HttpOk))
    /\ [][(response' # response /\ response'.op = "webhook"
              /\ response'.result \in {"invalid_signature", "payment_not_found"})
            => payments' = payments]_vars

C10_Witness ==
    /\ response.op = "webhook"
    /\ response.result = "payment_not_found"
    /\ response.status = HttpOk
    /\ \E i \in PaymentIds : payments[i].status = "pending"

\* C11: every persisted Payment with status PENDING has a session_id and a
\* session_url, whichever entry point created it.
C11_PendingHasSession ==
    \A i \in PaymentIds :
        payments[i].status = "pending"
            => (payments[i].session_id # NULL /\ payments[i].session_url # NULL)

\* C12: session_id and session_url are both present or both absent, a PAID
\* Payment has both, and marking a Payment without a session paid is rejected
\* and leaves it as it was.
C12_SessionPair ==
    \A i \in PaymentIds :
        LET p == payments[i] IN
        /\ (p.session_id = NULL) = (p.session_url = NULL)
        /\ p.status = "paid" => (p.session_id # NULL /\ p.session_url # NULL)
        /\ (p.session_id = NULL /\ p.status # "paid")
              => (mark_paid(p).payment = p /\ mark_paid(p).status # HttpOk)

C12_Witness ==
    /\ response.op = "mark_paid"
    /\ response.result = "ValidationError"
    /\ \E i \in PaymentIds : payments[i].session_id = NULL /\ payments[i].status = "pending"

\* C13: a borrowing never has more than one Payment of type fine, also when
\* two creations of its fine run concurrently.
C13_OneFinePerBorrowing ==
    \A bid \in BorrowingIds : Cardinality(PaymentsOf(payments, bid, "fine")) <= 1

ActivePayments(bid) ==
    {i \in PaymentsOf(payments, bid, "payment") :
        payments[i].status = "pending" /\ ~is_expired(payments[i], now)}

C17_NeedsFinePayment ==
    \A bid \in BorrowingIds :
        needs_fine_payment(borrowings[bid], bid, payments)
            <=> (was_returned_late(borrowings[bid])
                    /\ PaymentsOf(payments, bid, "fine") = {})

\* C18: a Payment that is pending past its expiry, or expired, is expired and
\* renewable; a renewal that succeeds keeps the row and the number of rows,
\* stores the new session's id, url and expiry on it, and leaves it pending
\* and no longer expired.
C18_RenewOverwrites ==
    /\ [](\A i \in PaymentIds :
            LET p == payments[i] IN
            (\/ p.status = "expired"
             \/ /\ p.status = "pending"
                /\ p.session_expires_at # NULL
                /\ p.session_expires_at < now)
                => (is_expired(p, now) /\ is_renewable(p, now)))
    /\ [][(Len(stripe') > Len(stripe) /\ response'.op = "renew_session")
            => \E i \in PaymentIds :
                  /\ is_expired(payments[i], now)
                  /\ is_renewable(payments[i], now)
                  /\ payments' = [payments EXCEPT ![i] =
                         [@ EXCEPT !.session_id = Len(stripe'),
                                   !.session_url = Len(stripe'),
                                   !.session_expires_at = now + SessionHours,
                                   !.status = "pending"]]
                  /\ ~is_expired(payments'[i], now')]_vars

\* a renewal has just replaced the session of a payment
C18_Witness ==
    /\ response.op = "renew_session"
    /\ response.result = "renewed"
    /\ \E i \in PaymentIds :
          /\ payments[i].status = "pending"
          /\ payments[i].session_id = Len(stripe)
          /\ payments[i].session_id > i
          /\ payments[i].session_expires_at = now + SessionHours

\* C19: renewing a Payment that is paid, or pending with its expiry in the
\* future, answers NotRenewable, creates no checkout session and leaves the
\* row as it was; a renewal whose checkout session cannot be created leaves
\* the row as it was.
C19_RenewRejected ==
    /\ [](\A i \in PaymentIds :
            LET p == payments[i]
                sid == Len(stripe) + 1 IN
            /\ (\/ p.status = "paid"
                 \/ (p.status = "pending" /\ p.session_expires_at > now))
                  => \A ok \in BOOLEAN :
                        LET r == renew_checkout_session(p, ok, sid, now) IN
                        /\ r.result = "NotRenewable"
                        /\ ~r.session
                        /\ r.payment = p
            /\ LET r == renew_checkout_session(p, FALSE, sid, now) IN
               ~r.session /\ r.payment = p)
    /\ [][(/\ response'.op = "renew_session"
            /\ response'.result \in {"NotRenewable", "SessionFailed"}
            /\ response' # response)
            => (payments' = payments /\ stripe' = stripe)]_vars

\* a renewal of a paid payment has just been refused
C19_Witness ==
    /\ response.op = "renew_session"
    /\ response.result = "NotRenewable"
    /\ \E i \in PaymentIds : payments[i].status = "paid"

\* the completed-checkout event of session sid, as the provider signs it
PaidEvent(sid) ==
    [sig |-> TRUE, type |-> "checkout.session.completed", session |-> sid,
     payment_status |-> "paid"]

\* C20: a Payment whose checkout session is paid ends paid through the
\* webhook, the success callback, check_session and mark_paid, whether it was
\* pending or expired, and through the sweep when it was pending; on a paid
\* Payment each of them changes nothing and reports no error.
C20_PaidFromPendingOrExpired ==
    \A i \in PaymentIds :
        LET p == payments[i]
            sid == p.session_id IN
        (sid \in 1..Len(stripe) /\ stripe[sid].state = "paid" /\ BySession(payments, sid) = {i})
            => /\ p.status \in {"pending", "expired"}
                    => /\ StripeWebhookView_post(payments, PaidEvent(sid)).payments[i].status = "paid"
                     /\ payment_success(payments, sid, "paid").payments[i].status = "paid"
                     /\ check_session(p, "paid").payment.status = "paid"
                     /\ mark_paid(p).payment.status = "paid"
               /\ (p.status = "pending" => sweep_row(p, "paid", now).status = "paid")
               /\ p.status = "paid"
                  => /\ StripeWebhookView_post(payments, PaidEvent(sid)).payments = payments
                     /\ StripeWebhookView_post(payments, PaidEvent(sid)).status = HttpOk
                     /\ payment_success(payments, sid, "paid").payments = payments
                     /\ payment_success(payments, sid, "paid").status = HttpOk
                     /\ check_session(p, "paid").payment = p
                     /\ check_session(p, "paid").status = HttpOk
                     /\ mark_paid(p).payment = p
                     /\ mark_paid(p).status = HttpOk

\* the rows a sweep that starts now has to select
SweepSelected ==
    {i \in PaymentIds : /\ payments[i].status = "pending"
                        /\ payments[i].session_id # NULL
                        /\ payments[i].session_expires_at # NULL
                        /\ payments[i].session_expires_at <= now}

\* C21: a run of the sweep selects exactly the pending Payments that have a
\* session and session_expires_at <= now; a processed row becomes expired
\* when the provider is unreachable, does not know the session, reports it
\* expired or reports an unknown status, paid when it reports it paid, and
\* stays pending with session_expires_at after the run's now when it reports
\* it open; no other Payment is changed by the sweep.
C21_SweepResolves ==
    /\ [](\A i \in PaymentIds :
            payments[i].status = "pending"
                => sweep_row(payments[i], "complete", now).status = "expired")
    /\ [][/\ (sweep.pc = "idle" /\ sweep'.status \in {"running", "completed"}
                                /\ sweep' # sweep)
               => /\ {sweep'.rows[k].id : k \in 1..Len(sweep'.rows)} = SweepSelected
                  /\ Len(sweep'.rows) = Cardinality(SweepSelected)
                  /\ payments' = payments
          /\ ((sweep.pc = "rows" /\ sweep' # sweep) => payments' = payments)
          /\ (sweep.pc = "apply" /\ sweep' # sweep)
               => LET id == Head(sweep.rows).id
                      a == sweep.session IN
                  /\ \A i \in PaymentIds : i # id => payments'[i] = payments[i]
                  /\ (sweep'.error_count = sweep.error_count)
                      => /\ (a \in {"none", "expired"} => payments'[id].status = "expired")
                         /\ (a = "paid" => payments'[id].status = "paid")
                         /\ (a = "open"
                              => /\ payments'[id].status = "pending"
                                 /\ payments'[id].session_expires_at > sweep.now)]_vars

\* a run has extended a row whose session the provider reports open, and
\* expired another
C21_Witness ==
    /\ sweep.status = "completed"
    /\ sweep.still_valid_count >= 1
    /\ sweep.expired_count >= 1
    /\ \E i \in PaymentIds :
          /\ payments[i].status = "pending"
          /\ payments[i].session_expires_at = now + ExtendHours
    /\ \E i \in PaymentIds : payments[i].status = "expired"

\* C22: a row of the sweep that fails is counted and listed as an error
\* and nothing is written for it; the sweep goes on with the rest of its
\* rows, and what it writes for a row depends only on that row as it was
\* fetched and on the provider's answer.
C22_RowFailureIsolated ==
    [][/\ (sweep.pc = "apply" /\ sweep'.error_count # sweep.error_count)
            => /\ payments' = payments
               /\ sweep'.error_count = sweep.error_count + 1
               /\ sweep'.errors = Append(sweep.errors, Head(sweep.rows).id)
               /\ sweep'.expired_count = sweep.expired_count
               /\ sweep'.still_valid_count = sweep.still_valid_count
               /\ IF Tail(sweep.rows) = << >>
                  THEN sweep'.status = "completed"
                  ELSE /\ sweep'.status = "running"
                       /\ sweep'.pc = "rows"
                       /\ sweep'.rows = Tail(sweep.rows)
       /\ (sweep.pc = "apply" /\ sweep' # sweep
                              /\ sweep'.error_count = sweep.error_count)
            => payments' = [payments EXCEPT ![Head(sweep.rows).id] =
                               sweep_row(Head(sweep.rows).copy, sweep.session,
                                         sweep.now)]]_vars

\* the newest row of a run failed and the older one was expired by the same
\* run
C22_Witness ==
    /\ sweep.status = "completed"
    /\ sweep.errors = << 2 >>
    /\ sweep.expired_count = 1
    /\ Len(payments) >= 2
    /\ payments[2].status = "pending"
    /\ payments[1].status = "expired"

\* C23: while a run is under way every fetched row is either counted or
\* still to do; the summary of a completed run has expired_count +
\* still_valid_count + error_count = total_checked = the number of rows
\* selected, with one error detail per errored row; a run that selects
\* nothing completes at once with every count zero.
C23_SummaryAddsUp ==
    /\ [](/\ sweep.status \in {"running", "completed"}
              => /\ sweep.expired_count + sweep.still_valid_count
                        + sweep.error_count + Len(sweep.rows) = sweep.total_checked
                 /\ Len(sweep.errors) = sweep.error_count
          /\ sweep.status = "completed" => sweep.rows = << >>)
    /\ [][(sweep.pc = "idle" /\ sweep'.status \in {"running", "completed"}
                             /\ sweep' # sweep)
            => /\ sweep'.total_checked = Cardinality(SweepSelected)
               /\ sweep'.expired_count + sweep'.still_valid_count
                      + sweep'.error_count = 0
               /\ SweepSelected = {}
                     => (sweep'.status = "completed" /\ sweep'.total_checked = 0
                            /\ sweep'.errors = << >>)]_vars

\* a completed run of two rows: one errored, one still valid
C23_Witness ==
    /\ sweep.status = "completed"
    /\ sweep.total_checked = 2
    /\ sweep.error_count = 1
    /\ sweep.still_valid_count = 1
    /\ Len(sweep.errors) = 1

\* C24: a retry of the sweep is scheduled only by a failure of the run as
\* a whole, never by a row; a row error leaves the retry count alone; a
\* scheduled run is retried at most max_retries times, and the failure
\* after the last retry is raised.
C24_RetryBounded ==
    /\ [](/\ sweep.retries <= max_retries
          /\ sweep.status = "failed" => sweep.retries = max_retries)
    /\ [][/\ (sweep'.status \in {"retry", "failed"} /\ sweep' # sweep)
              => /\ sweep.pc = "idle"
                 /\ payments' = payments
                 /\ sweep'.status = "retry"
                       => sweep'.retries = request_retries(sweep) + 1
          /\ (sweep.pc \in {"rows", "apply"} /\ sweep' # sweep)
              => /\ sweep'.retries = sweep.retries
                 /\ sweep'.status \in {"running", "completed"}]_vars

\* the run after the third retry failed too and the failure was raised
C24_Witness ==
    /\ sweep.status = "failed"
    /\ sweep.retries = max_retries

\* C25: the rows of a run are the borrowings that are not returned and due
\* today or earlier, by expected_return_date and then user; each iteration
\* dispatches one notification for its row and goes on to the next row
\* whatever the outcome; after the loop successful_notifications +
\* failed_notifications = overdue_count, and failed_borrowing_ids lists one
\* id per failure.
C25_OneNotificationPerOverdue ==
    /\ [](notify.pc = "rows"
            => /\ notify.successful_notifications + notify.failed_notifications
                     + Len(notify.rows) = notify.overdue_count
               /\ Len(notify.failed_borrowing_ids) = notify.failed_notifications)
    /\ [][/\ (notify.pc = "fetch" /\ notify' # notify)
              => /\ {notify'.rows[k] : k \in 1..Len(notify'.rows)} = Overdue(Today)
                 /\ \A k \in 1..Len(notify'.rows) - 1 :
                        Before(notify'.rows[k], notify'.rows[k + 1])
          /\ (notify.pc = "rows" /\ notify.rows # << >> /\ notify' # notify)
              => /\ notify'.sent = Append(notify.sent, Head(notify.rows))
                 /\ notify'.rows = Tail(notify.rows)
                 /\ notify'.pc = "rows"]_vars

\* C26: an execution queues at most one retry, and queues one exactly when
\* the run failed as a whole or more notifications failed than succeeded
\* (and retries are left); a scheduled run is followed by at most
\* max_retries further executions.
C26_NotifyRetryBounded ==
    /\ [](notify.executions <= max_retries)
    /\ [][/\ Len(notify'.pending) <= Len(notify.pending) + 1
          /\ Len(notify'.pending) > Len(notify.pending)
              => \/ notify.pc = "idle"
                 \/ /\ notify.pc = "rows"
                    /\ notify.rows = << >>
                    /\ notify.failed_notifications > notify.successful_notifications
          /\ (/\ notify.pc = "rows"
              /\ notify.rows = << >>
              /\ notify.failed_notifications > notify.successful_notifications
              /\ notify.retries < max_retries
              /\ notify' # notify)
              => Len(notify'.pending) = Len(notify.pending) + 1]_vars

\* C27: a run that counts no overdue borrowing ends with status success
\* and overdue_count 0 whether or not the all-clear message could be sent,
\* and queues no retry; a run that processed rows ends with status
\* completed and a positive overdue_count.
C27_AllClearIsSuccess ==
    /\ [](/\ notify.status = "success" => notify.overdue_count = 0
          /\ notify.status = "completed" => notify.overdue_count > 0)
    /\ [][(notify.pc = "clear" /\ notify' # notify)
            => /\ notify'.status = "success"
               /\ notify'.overdue_count = 0
               /\ notify'.pending = notify.pending]_vars

\* the calendar days a return can name
ReturnDates == 1..(MaxDays + 2)

\* the return request of worker p for borrowing bid ends in this step
ReturnEnds(p, bid) ==
    req[p].pc = "return_save" /\ req[p].borrowing = bid /\ req'[p].pc = "idle"

\* C28: return_book on a returned Borrowing raises AlreadyReturned and
\* changes nothing; a returned Borrowing keeps its actual_return_date and
\* is never active again, and a return request that ends on a returned
\* Borrowing answers AlreadyReturned and leaves the inventory as it was.
C28_ReturnedOnce ==
    /\ [](\A bid \in BorrowingIds : \A d \in ReturnDates \cup {NULL} :
            is_returned(borrowings[bid])
              => Borrowing_return_book(borrowings[bid], d, Today) =
                    [error |-> "AlreadyReturned", borrowing |-> borrowings[bid]])
    /\ [][\A bid \in BorrowingIds :
            is_returned(borrowings[bid])
              => /\ borrowings'[bid] = borrowings[bid]
                 /\ \A p \in Procs :
                       ReturnEnds(p, bid)
                         => /\ response'.result = "AlreadyReturned"
                            /\ inventory' = inventory]_vars

\* C29: return_book of an active Borrowing with a date before borrow_date
\* or after today raises InvalidReturnDate and leaves it active; with a
\* date in between it sets actual_return_date to that date; a return
\* request that ends on an active Borrowing sets actual_return_date to
\* today and adds exactly one to the book's inventory.
C29_ReturnDateChecked ==
    /\ [](\A bid \in BorrowingIds : \A d \in ReturnDates :
            LET b == borrowings[bid]
                r == Borrowing_return_book(b, d, Today) IN
            ~is_returned(b)
              => IF d < b.borrow_date \/ d > Today
                 THEN r = [error |-> "InvalidReturnDate", borrowing |-> b]
                 ELSE /\ r.error = "none"
                      /\ r.borrowing = [b EXCEPT !.actual_return_date = d])
    /\ [][\A bid \in BorrowingIds : \A p \in Procs :
            (ReturnEnds(p, bid) /\ ~is_returned(borrowings[bid]))
              => /\ borrowings'[bid].actual_return_date = Today
                 /\ inventory'[borrowings[bid].book]
                       = inventory[borrowings[bid].book] + 1]_vars

\* C30: a creation request is accepted only with an expected_return_date
\* after today and at most max_days away; a rejected one persists no
\* Borrowing and takes no copy; every stored Borrowing has borrow_date <
\* expected_return_date <= borrow_date + 365 days and an actual_return_date
\* that is null or not before borrow_date.
C30_DatesValidated ==
    /\ [](\A bid \in BorrowingIds :
            LET b == borrowings[bid] IN
            /\ b.borrow_date < b.expected_return_date
            /\ b.expected_return_date <= b.borrow_date + YearDays
            /\ b.actual_return_date = NULL \/ b.actual_return_date >= b.borrow_date)
    /\ [][/\ \A p \in Procs :
              (req[p].pc = "idle" /\ req'[p].pc = "create")
                => /\ req'[p].due > Today
                   /\ req'[p].due - Today <= max_days
          /\ Len(borrowings') > Len(borrowings)
                => /\ borrowings'[Len(borrowings')].expected_return_date > Today
                   /\ borrowings'[Len(borrowings')].borrow_date = Today
          /\ (/\ response'.op = "create"
              /\ response'.result \in {"NotAfterToday", "WindowExceeded", "ValidationError"}
              /\ response' # response)
                => (borrowings' = borrowings /\ inventory' = inventory)]_vars

\* a request for a loan beyond the window was refused after a Borrowing of
\* an accepted length was stored and returned
C30_Witness ==
    /\ response.op = "create"
    /\ response.result = "WindowExceeded"
    /\ \E bid \in BorrowingIds : is_returned(borrowings[bid])

\* the amount x, in tenths of a cent, rounded half-up to whole cents
RoundHalfUp(x) == (x + 5) \div 10

\* C31: borrowingDays is the planned length, paymentFee is daily_fee times
\* borrowingDays, fineFee is 0 unless returned late and else daysLate *
\* daily_fee * fineMultiplier rounded half-up to cents, totalAmountDue is
\* their sum; fee 2.00, 10 planned days, 4 days late, multiplier 2.0 give
\* 20.00, 16.00 and 36.00.
C31_FeesAsStated ==
    /\ LET e == [book |-> 1, user |-> 1, borrow_date |-> 1,
                 expected_return_date |-> 11, actual_return_date |-> 15] IN
       /\ payment_fee(e, 200) = 2000
       /\ fine_fee(e, 200, 20) = 1600
       /\ total_amount_due(e, 200, 20) = 3600
       /\ fine_fee([e EXCEPT !.actual_return_date = 11], 200, 20) = 0
    /\ \A i \in BorrowingIds :
         LET b == borrowings[i]
             fee == catalog[b.book].daily_fee
             daysLate == b.actual_return_date - b.expected_return_date IN
         /\ borrowing_days(b) = b.expected_return_date - b.borrow_date
         /\ payment_fee(b, fee) = fee * borrowing_days(b)
         /\ fine_fee(b, fee, FINE_MULTIPLIER) =
                IF was_returned_late(b)
                THEN RoundHalfUp(daysLate * fee * FINE_MULTIPLIER) ELSE 0
         /\ total_amount_due(b, fee, FINE_MULTIPLIER) =
                payment_fee(b, fee) + fine_fee(b, fee, FINE_MULTIPLIER)

C33_NoBorrowWithPending ==
    [][/\ \A p \in Procs, u \in Users :
            (req[p].pc = "idle" /\ req'[p].pc = "create" /\ req'[p].user = u)
                => pending_count(u) = 0
       /\ (response'.op = "create" /\ response'.result = "PendingPayments"
                                   /\ response' # response)
            => (borrowings' = borrowings /\ payments' = payments
                                         /\ inventory' = inventory)
       /\ \A p \in Procs :
            (CreateEnds(p) /\ response'.result = "created")
                => pending_count(req[p].user) = 0]_vars

C35_ConcurrentReturnOnce ==
    [][\A p \in Procs, bid \in BorrowingIds :
          (ReturnEnds(p, bid) /\ response'.result = "returned")
             => /\ ~is_returned(borrowings[bid])
                /\ inventory'[borrowings[bid].book] =
                       inventory[borrowings[bid].book] + 1]_vars

\* C36: a payment that the sweep fetched as a candidate and that was renewed
\* before the sweep wrote its row is left as the renewal made it: the sweep
\* neither expires it nor writes the old session_id, session_url or expiry
\* back.
C36_RenewSurvivesSweep ==
    [][(/\ sweep.pc = "apply"
        /\ sweep' # sweep
        /\ payments[Head(sweep.rows).id].session_id # Head(sweep.rows).copy.session_id)
          => payments'[Head(sweep.rows).id] = payments[Head(sweep.rows).id]]_vars

\* the Payment id is pending and the provider holds its session in `state`
PendingWith(id, state) ==
    /\ id \in PaymentIds
    /\ payments[id].status = "pending"
    /\ payments[id].session_id # NULL
    /\ stripe[payments[id].session_id].state = state

HasStatus(id, status) == id \in PaymentIds /\ payments[id].status = status

\* C37: with the sweep run again and again and the provider reachable, a
\* pending payment whose remote session has been paid becomes PAID without
\* any webhook, and one whose remote session has expired unpaid becomes
\* EXPIRED.
C37_NoPendingForever ==
    \A id \in SessionIds :
        /\ PendingWith(id, "paid") ~> HasStatus(id, "paid")
        /\ PendingWith(id, "expired") ~> HasStatus(id, "expired")

\* the sweep has settled a paid payment and an expired one
C37_Witness ==
    /\ sweep.status = "completed"
    /\ \E i, j \in PaymentIds :
          /\ payments[i].status = "paid"
          /\ payments[j].status = "expired"

\* C38: the sweep can be run again.  (1) The step that completes a run leaves
\* no row for a second run at the same clock reading and provider state to
\* select, so that run changes no payment; every step of a run keeps the
\* table the run will leave.  (2) A run stopped between two rows and started
\* again from scratch at the same clock reading leaves the table that the
\* uninterrupted run leaves.
C38_SweepRerunnable ==
    [][/\ (sweep.pc = "apply" /\ sweep'.pc = "idle")
          => /\ payments' = SweepOutcome
             /\ potentially_expired_payments(payments', sweep.now, Len(payments')) = << >>
             /\ check_expired_stripe_sessions(payments', sweep.now) = payments'
       /\ (sweep.pc \in {"rows", "apply"} /\ sweep'.pc \in {"rows", "apply"})
          => SweepOutcome' = SweepOutcome
       /\ (sweep.pc = "rows" /\ sweep'.pc = "idle")
          => /\ payments' = payments
             /\ check_expired_stripe_sessions(payments', sweep.now) = SweepOutcome
      ]_vars

\* a run of two rows was stopped after its first row, which it had resolved
C38_Witness ==
    /\ sweep = IdleSweep
    /\ Len(payments) >= 2
    /\ \E i, j \in PaymentIds :
          /\ payments[i].status \in {"paid", "expired"}
          /\ payments[j].status = "pending"
          /\ payments[j].session_expires_at # NULL
          /\ payments[j].session_expires_at <= now

\* C39: every component takes "today" from the same clock: whenever the
\* single-borrowing task decides on a borrowing that is not returned, it
\* calls it not overdue yet exactly when the sweep's filter on the same
\* instant leaves it out, and the days it computes are the days of the sweep
\* and, past the due date, of Borrowing.days_overdue.
C39_SameToday ==
    [][\A bid \in BorrowingIds, ok \in BOOLEAN :
          (SendOverdueNotification(bid, ok) /\ borrowings[bid].actual_return_date = NULL)
          => LET b == borrowings[bid]
                 r == send_overdue_notification(b, utc_today, ok) IN
             /\ (r.reason = "NotOverdueYet") <=> (bid \notin Overdue(Today))
             /\ bid \in Overdue(Today)
                => /\ r.days_overdue = sweep_days_overdue(b, Today)
                   /\ is_overdue(b, Today) => r.days_overdue = days_overdue(b, Today)
      ]_vars

\* C40: one overdue predicate everywhere: is_overdue of a returned borrowing
\* is was_returned_late and of an active one is today > expected_return_date,
\* is_overdue holds exactly when days_overdue > 0, and every borrowing the
\* notification sweep fetches as overdue, to alert about and to count in its
\* report, is overdue with at least one day overdue on the sweep's date.
C40_OneOverduePredicate ==
    [][/\ \A i \in BorrowingIds :
             LET b == borrowings[i] IN
             /\ is_returned(b) => (is_overdue(b, Today) <=> was_returned_late(b))
             /\ ~is_returned(b) => (is_overdue(b, Today) <=> Today > b.expected_return_date)
             /\ is_overdue(b, Today) <=> days_overdue(b, Today) > 0
       /\ NotifyFetch
          => \A k \in 1..Len(notify'.rows) :
                LET b == borrowings[notify'.rows[k]] IN
                /\ is_overdue(b, Today)
                /\ days_overdue(b, Today) >= 1
                /\ sweep_days_overdue(b, Today) = days_overdue(b, Today)
      ]_vars

====
